---------------------------- MODULE Spec2Model ----------------------------
(***************************************************************************)
(* stx402-agents: the agent registry (registry.ts), the orchestration      *)
(* engine (orchestrator.ts) and the payment gates (orchestrator.ts,        *)
(* index.ts) as one state machine.  Every await of the source is a step    *)
(* boundary: what runs between two awaits is one action.                   *)
(***************************************************************************)
EXTENDS Integers, Sequences, FiniteSets, TLC

(***************************************************************************)
(* Bounds of the model.                                                    *)
(***************************************************************************)
\* Number of agent ids crypto.randomUUID() hands out (registrations).
MaxAgents == 2
\* Longest task list of an orchestration request.
MaxTasks == 2

(***************************************************************************)
(* Program constants.                                                      *)
(***************************************************************************)
\* registry.ts:55 and the schema default: the neutral prior of a new agent.
InitialRating == 50
\* orchestrator.ts:173: task.max_payment || 1000
DefaultPayment == 1000
\* registry.ts:175: 0/0, the value Math.round keeps as NaN; no integer.
NaN == -1

AgentIds == 1..MaxAgents
\* The calls of orchestrate of one behaviour.
Workflows == {1}

(***************************************************************************)
(* Strings are sequences of one-character strings, so that LIKE and        *)
(* JSON.stringify can be computed as the store and the runtime do.         *)
(***************************************************************************)
RECURSIVE Concat(_)
Concat(ss) == IF ss = <<>> THEN <<>> ELSE Head(ss) \o Concat(Tail(ss))

\* SQLite's LIKE folds the case of ASCII letters.
Fold(ch) ==
    CASE ch = "P" -> "p"
      [] ch = "S" -> "s"
      [] ch = "T" -> "t"
      [] ch = "X" -> "x"
      [] ch = "B" -> "b"
      [] ch = "C" -> "c"
      [] OTHER -> ch

\* text LIKE pat: % matches any run of characters, _ any one character,
\* every other character itself up to ASCII case.
RECURSIVE Like(_, _)
Like(pat, text) ==
    IF pat = <<>> THEN text = <<>>
    ELSE IF Head(pat) = "%"
         THEN Like(Tail(pat), text)
              \/ (text # <<>> /\ Like(pat, Tail(text)))
         ELSE /\ text # <<>>
              /\ (Head(pat) = "_" \/ Fold(Head(pat)) = Fold(Head(text)))
              /\ Like(Tail(pat), Tail(text))

\* JSON.stringify of an array of strings (none of the modelled strings holds
\* a character JSON escapes).
RECURSIVE JoinQuoted(_)
JoinQuoted(strs) ==
    IF strs = <<>> THEN <<>>
    ELSE <<"\"">> \o Head(strs) \o <<"\"">>
         \o (IF Tail(strs) = <<>> THEN <<>> ELSE <<",">> \o JoinQuoted(Tail(strs)))

Stringify(strs) == <<"[">> \o JoinQuoted(strs) \o <<"]">>

\* The bound parameter `%"${value}"%` of discoverAgents.
LikeParam(value) == <<"%", "\"">> \o value \o <<"\"", "%">>

STX == <<"S", "T", "X">>
SBTC == <<"s", "B", "T", "C">>


(***************************************************************************)
(* Reputation engine (registry.ts, updateReputation).                      *)
(***************************************************************************)
Min(a, b) == IF a < b THEN a ELSE b

\* A row seeded with the lowest rating instead of the neutral prior.
NewReputationRowUnrated ==
    [present |-> TRUE, total_tasks |-> 0, successful_tasks |-> 0,
     failed_tasks |-> 0, total_earned_stx |-> 0, total_earned_sbtc |-> 0,
     avg_response_time_ms |-> 0, rating |-> 0]

\* The row registerAgent inserts: rating 50, every other column its schema
\* default.
NewReputationRow ==
    [present |-> TRUE, total_tasks |-> 0, successful_tasks |-> 0,
     failed_tasks |-> 0, total_earned_stx |-> 0, total_earned_sbtc |-> 0,
     avg_response_time_ms |-> 0, rating |-> InitialRating]

\* No row of the table has this agent_id.
NoReputationRow ==
    [present |-> FALSE, total_tasks |-> 0, successful_tasks |-> 0,
     failed_tasks |-> 0, total_earned_stx |-> 0, total_earned_sbtc |-> 0,
     avg_response_time_ms |-> 0, rating |-> 0]

\* A rounding that sends ties downwards.
MathRoundTiesDown(num, den) == (2 * num + den - 1) \div (2 * den)

\* Math.round(x) for x = num/den >= 0: the nearest integer, ties upwards.
MathRound(num, den) == (2 * num + den) \div (2 * den)

\* The counter pairs <<successful, total>>, total <= 100, at which the
\* double-precision product successRate * 100 * (0.5 + 0.5 * taskWeight)
\* falls one ulp below an exact tie k + 0.5, so that Math.round yields k
\* where the exact value rounds to k + 1.
BelowTie ==
    { <<13, 13>>, <<15, 15>>, <<4, 16>>, <<18, 40>>, <<34, 40>>, <<29, 50>>,
      <<57, 57>>, <<41, 82>> }

\* Math.round(successRate * 100 * (0.5 + 0.5 * taskWeight)) with
\* successRate = successful / total and taskWeight = min(total / 100, 1);
\* 0/0 is NaN and stays NaN.
RatingFormula(successful, total) ==
    IF total = 0 THEN NaN
    ELSE MathRound(successful * (100 + Min(total, 100)), 2 * total)
         - (IF <<successful, total>> \in BelowTie THEN 1 ELSE 0)

\* An update that rates the counters it read, not the ones it writes.
UpdatedRowStaleRating(current, success, paymentAmount, paymentToken, responseTimeMs) ==
    [present |-> TRUE, total_tasks |-> current.total_tasks + 1,
     successful_tasks |-> IF success THEN current.successful_tasks + 1
                          ELSE current.successful_tasks,
     failed_tasks |-> IF success THEN current.failed_tasks
                      ELSE current.failed_tasks + 1,
     total_earned_stx |-> current.total_earned_stx + paymentAmount,
     total_earned_sbtc |-> current.total_earned_sbtc,
     avg_response_time_ms |-> current.avg_response_time_ms,
     rating |-> IF current.total_tasks = 0 THEN InitialRating
                ELSE RatingFormula(current.successful_tasks, current.total_tasks)]

\* The columns updateReputation computes from the row it read.
UpdatedRow(current, success, paymentAmount, paymentToken, responseTimeMs) ==
    LET newTotal == current.total_tasks + 1
        newSuccessful == IF success THEN current.successful_tasks + 1
                         ELSE current.successful_tasks
        newFailed == IF success THEN current.failed_tasks
                     ELSE current.failed_tasks + 1
        newEarnedStx == IF paymentToken = STX
                        THEN current.total_earned_stx + paymentAmount
                        ELSE current.total_earned_stx
        newEarnedSbtc == IF paymentToken = SBTC
                         THEN current.total_earned_sbtc + paymentAmount
                         ELSE current.total_earned_sbtc
        newAvgTime == MathRound(current.avg_response_time_ms * current.total_tasks
                                + responseTimeMs, newTotal)
        newRating == RatingFormula(newSuccessful, newTotal)
    IN  [present |-> TRUE, total_tasks |-> newTotal,
         successful_tasks |-> newSuccessful, failed_tasks |-> newFailed,
         total_earned_stx |-> newEarnedStx, total_earned_sbtc |-> newEarnedSbtc,
         avg_response_time_ms |-> newAvgTime, rating |-> newRating]

(***************************************************************************)
(* Payment gates: verifyPayment of orchestrator.ts (the engine's) and of   *)
(* index.ts (the routes').                                                 *)
(***************************************************************************)
TxStatuses == {"success", "pending", "abort_by_response"}
TxTypes == {"contract_call", "token_transfer"}
\* contract_call.contract_id of a transaction, "<address>.<name>": the
\* address (upper case, one element) and the characters that follow it. The
\* contract of orchestrator.ts's CONTRACT, the one of index.ts's
\* SBTC_CONTRACT, and a contract of another deployer named after sbtc.
OracleContract ==
    <<"SPP5ZMH9NQDFD2K5CEQZ6P02AP8YPWMQ75TJW20M", ".", "s", "i", "m", "p", "l", "e", "-", "o", "r", "a", "c", "l", "e">>
SbtcContract ==
    <<"SP3K8BC0PPEVCV7NZ6QSRWPQ2JE9E5B6N3PA0KBR9", ".", "t", "o", "k", "e", "n", "-", "s", "b", "t", "c">>
ForeignContract ==
    <<"SP000000000000000000002Q6VF78", ".", "w", "r", "a", "p", "p", "e", "d", "-", "s", "b", "t", "c">>
\* A token_transfer has no contract_call member.
NoContract == <<>>
ContractIds == {OracleContract, SbtcContract, ForeignContract}

\* String.prototype.includes
Includes(str, search) ==
    \E k \in 0..(Len(str) - Len(search)) : SubSeq(str, k + 1, k + Len(search)) = search

\* contract_id?.includes('sbtc')
IncludesSbtc(contract_id) == Includes(contract_id, <<"s", "b", "t", "c">>)

\* The transactions a payment reference can name.
TxRecords ==
    { [tx_status |-> s, tx_type |-> "contract_call", contract_id |-> c] :
        s \in TxStatuses, c \in ContractIds }
    \cup { [tx_status |-> s, tx_type |-> "token_transfer", contract_id |-> NoContract] :
        s \in TxStatuses }

NoTx == [tx_status |-> "", tx_type |-> "", contract_id |-> NoContract]

\* What the fetch of the explorer resolves to: it throws, answers non-2xx,
\* answers a body that is no JSON, or answers the transaction.
FetchKinds == {"throws", "not_ok", "bad_json", "tx"}
Fetched(kind, tx) == [kind |-> kind, tx |-> IF kind = "tx" THEN tx ELSE NoTx]

StatusError(tx_status) ==
    CASE tx_status = "pending" -> "Transaction status: pending"
      [] tx_status = "abort_by_response" -> "Transaction status: abort_by_response"
      [] OTHER -> "Transaction status: ?"

\* What verifyPayment returns (sender and amount are not modelled);
\* decided is FALSE while it has not returned.
Rejected(error) == [decided |-> TRUE, valid |-> FALSE, error |-> error]
Admitted == [decided |-> TRUE, valid |-> TRUE, error |-> ""]
NoVerdict == [decided |-> FALSE, valid |-> FALSE, error |-> ""]

\* A gate that does not look at the settlement status.
EngineVerifyPaymentAnyStatus(fetched) ==
    CASE fetched.kind = "throws" -> Rejected("Verification failed")
      [] fetched.kind = "not_ok" -> Rejected("Transaction not found")
      [] fetched.kind = "bad_json" -> Rejected("Verification failed")
      [] OTHER ->
           IF fetched.tx.tx_type # "contract_call"
           THEN Rejected("Not a contract call")
           ELSE Admitted

\* A gate that fails open when the fetch throws.
EngineVerifyPaymentFailOpen(fetched) ==
    CASE fetched.kind = "throws" -> Admitted
      [] fetched.kind = "not_ok" -> Rejected("Transaction not found")
      [] fetched.kind = "bad_json" -> Rejected("Verification failed")
      [] OTHER ->
           IF fetched.tx.tx_status # "success"
           THEN Rejected(StatusError(fetched.tx.tx_status))
           ELSE IF fetched.tx.tx_type # "contract_call"
           THEN Rejected("Not a contract call")
           ELSE Admitted

\* orchestrator.ts verifyPayment
EngineVerifyPayment(fetched) ==
    CASE fetched.kind = "throws" -> Rejected("Verification failed")
      [] fetched.kind = "not_ok" -> Rejected("Transaction not found")
      [] fetched.kind = "bad_json" -> Rejected("Verification failed")
      [] OTHER ->
           IF fetched.tx.tx_status # "success"
           THEN Rejected(StatusError(fetched.tx.tx_status))
           ELSE IF fetched.tx.tx_type # "contract_call"
           THEN Rejected("Not a contract call")
           ELSE Admitted

\* index.ts verifyPayment
RouteVerifyPayment(fetched) ==
    CASE fetched.kind = "throws" -> Rejected("Verification failed")
      [] fetched.kind = "not_ok" -> Rejected("Transaction not found")
      [] fetched.kind = "bad_json" -> Rejected("Verification failed")
      [] OTHER ->
           IF fetched.tx.tx_status # "success"
           THEN Rejected(StatusError(fetched.tx.tx_status))
           ELSE IF fetched.tx.tx_type = "contract_call"
                   /\ ~IncludesSbtc(fetched.tx.contract_id)
           THEN Rejected("Not an sBTC transfer")
           ELSE Admitted

(***************************************************************************)
(* Inputs.                                                                 *)
(***************************************************************************)
\* Capability names: "p" (price_feed) and "s" (sentiment).
CapP == <<"p">>
CapS == <<"s">>
TaskCapabilities == {CapP, CapS}

\* The register requests: capabilities and payment_tokens (|| ['STX']).
RegisterRequests ==
    { [capabilities |-> <<CapP>>, payment_tokens |-> <<STX>>] }

\* max_payment of a task; 0 stands for every falsy value (0, undefined).
MaxPayments == {0, 500}
Strategies == {"sequential", "parallel", "best_agent", "omitted"}
TaskSpecs ==
    { [capability |-> CapP, max_payment |-> 0],
      [capability |-> CapP, max_payment |-> 500],
      [capability |-> CapS, max_payment |-> 0] }
TaskLists == UNION { [1..n -> TaskSpecs] : n \in 0..MaxTasks }

\* A value the runtime has as undefined (or null).
Undefined == "undefined"
\* Bodies a remote agent answers: a JSON object, and the JSON value null
\* (standing for every falsy JSON value).
Outputs == {"obj", "null"}
Truthy(value) == value \notin {"null", Undefined, ""}
\* Bodies of a non-2xx answer: some text, and the empty body.
ErrorBodies == {"boom", ""}
\* Date.now() - startTime of a call.
ResponseTimes == {3}

\* What callAgent returns: the 2xx answer parsed, the text of a non-2xx
\* answer, or the caught exception of fetch or of response.json().
CallAgentResults ==
    { [success |-> TRUE, data |-> d, error |-> Undefined] : d \in Outputs }
    \cup { [success |-> FALSE, data |-> Undefined, error |-> e] : e \in ErrorBodies }
    \cup { [success |-> FALSE, data |-> Undefined, error |-> "Agent call failed"] }

\* The results drawn for a call: a truthy and a falsy body, and a failure.
DrawnResults ==
    { r \in CallAgentResults : r.error \in {Undefined, "Agent call failed"} }

NoResult == [success |-> FALSE, data |-> Undefined, error |-> Undefined]

(***************************************************************************)
(* State.                                                                  *)
(***************************************************************************)
VARIABLES
    agents,          \* table agents: id -> row
    reputation,      \* table reputation: agent_id -> row
    tasks,           \* table tasks, in insertion order
    nextId,          \* ids crypto.randomUUID() has handed to registerAgent
    pendingRep,      \* registerAgent calls between their two INSERTs
    wpc,             \* orchestrate: where each call stands
    request,         \* orchestrate: its request
    payment,         \* the transaction paymentTxid names
    fetched,         \* what the last fetch of that transaction resolved to
    verification,    \* POST /orchestrate: its local verification
    paymentVerification,  \* orchestrate: its local paymentVerification
    th,              \* orchestrate: per task, the async body working on it
    previousOutput,  \* orchestrate, sequential: the local previousOutput
    results,         \* orchestrate: the local results array
    ret,             \* orchestrate: the object returned
    http,            \* POST /orchestrate: the status answered before orchestrate
    registration,    \* POST /register, POST /agents: the request being handled
    updates          \* per agent, the UPDATEs of updateReputation executed

vars == <<agents, reputation, tasks, nextId, pendingRep, wpc, request, payment,
          fetched, verification, paymentVerification, th, previousOutput,
          results, ret, http, updates, registration>>

gate == <<fetched, verification, paymentVerification>>

store == <<agents, reputation, tasks, nextId, pendingRep, updates>>

NoAgentRow == [present |-> FALSE, capabilities |-> <<>>, payment_tokens |-> <<>>]
NoRequest == [strategy |-> "omitted", tasks |-> <<>>]
NoRet == [success |-> FALSE, results |-> <<>>]

\* The body of a registration: whether name, endpoint, capabilities and
\* payment_address are all there, whether it carries a signature, and the
\* fields the store keeps.
RegisterBodies == [complete : BOOLEAN, signed : BOOLEAN, req : RegisterRequests]
NoBody == [complete |-> FALSE, signed |-> FALSE,
           req |-> [capabilities |-> <<>>, payment_tokens |-> <<>>]]

\* handleRegistration: its position, the transaction X-Payment names, what
\* the fetch of verifyPayment resolved to, the body, the id registerAgent
\* drew (0: none yet) and the status answered (0: none yet).
NoRegistration ==
    [pc |-> "idle", tx |-> NoTx, fetched |-> "none", valid |-> FALSE,
     body |-> NoBody, id |-> 0, http |-> 0]

\* One task's async body: its position, the agent findBestAgent gave it, the
\* previous_result merged into its input, what callAgent returned, and the
\* reputation row updateReputation read.
IdleThread ==
    [pc |-> "waiting", agent |-> 0, previous_result |-> Undefined,
     result |-> NoResult, responseTimeMs |-> 0, current |-> NoReputationRow]

Init ==
    /\ agents = [a \in AgentIds |-> NoAgentRow]
    /\ reputation = [a \in AgentIds |-> NoReputationRow]
    /\ tasks = <<>>
    /\ nextId = 0
    /\ pendingRep = {}
    /\ wpc = [w \in Workflows |-> "idle"]
    /\ request = [w \in Workflows |-> NoRequest]
    /\ payment = [w \in Workflows |-> NoTx]
    /\ fetched = [w \in Workflows |-> "none"]
    /\ verification = [w \in Workflows |-> NoVerdict]
    /\ paymentVerification = [w \in Workflows |-> NoVerdict]
    /\ th = [w \in Workflows |-> <<>>]
    /\ previousOutput = [w \in Workflows |-> Undefined]
    /\ results = [w \in Workflows |-> <<>>]
    /\ ret = [w \in Workflows |-> NoRet]
    /\ http = [w \in Workflows |-> 0]
    /\ updates = [a \in AgentIds |-> 0]
    /\ registration = NoRegistration

(***************************************************************************)
(* registry.ts                                                             *)
(***************************************************************************)
\* registerAgent up to its first await resolving: a fresh id, INSERT INTO
\* agents.
RegisterAgent(req) ==
    /\ nextId < MaxAgents
    /\ nextId' = nextId + 1
    /\ agents' = [agents EXCEPT ![nextId + 1] =
                     [present |-> TRUE, capabilities |-> req.capabilities,
                      payment_tokens |-> req.payment_tokens]]
    /\ pendingRep' = pendingRep \cup {nextId + 1}
    /\ UNCHANGED <<registration, reputation, tasks, updates, wpc, request, payment, gate, th,
                   previousOutput, results, ret, http>>

\* registerAgent: INSERT INTO reputation (agent_id, rating, last_activity)
\* VALUES (?, 50, ?), then return.
InsertReputation(id) ==
    /\ id \in pendingRep
    /\ reputation' = [reputation EXCEPT ![id] = NewReputationRow]
    /\ pendingRep' = pendingRep \ {id}
    /\ UNCHANGED <<registration, agents, tasks, nextId, updates, wpc, request, payment, gate,
                   th, previousOutput, results, ret, http>>

\* registerAgent: the second INSERT throws (a store error); the agent row
\* stays, and registerAgent rejects.
InsertReputationFails(id) ==
    /\ id \in pendingRep
    /\ pendingRep' = pendingRep \ {id}
    /\ UNCHANGED <<registration, agents, reputation, tasks, nextId, updates, wpc, request,
                   payment, gate, th, previousOutput, results, ret, http>>

\* A WHERE clause without the condition on r.rating.
MatchesQueryAnyRating(a, query) ==
    /\ agents[a].present
    /\ reputation[a].present
    /\ (query.capability # <<>> =>
           Like(LikeParam(query.capability), Stringify(agents[a].capabilities)))
    /\ (query.payment_token # <<>> =>
           Like(LikeParam(query.payment_token), Stringify(agents[a].payment_tokens)))

\* WHERE clause of discoverAgents on the row of agent a.
MatchesQuery(a, query) ==
    /\ agents[a].present
    /\ reputation[a].present
    /\ (query.capability # <<>> =>
           Like(LikeParam(query.capability), Stringify(agents[a].capabilities)))
    /\ (query.payment_token # <<>> =>
           Like(LikeParam(query.payment_token), Stringify(agents[a].payment_tokens)))
    /\ (query.has_min_rating => reputation[a].rating >= query.min_rating)

\* ORDER BY r.rating DESC, r.successful_tasks DESC: a comes before b.
RanksBefore(a, b) ==
    \/ reputation[a].rating > reputation[b].rating
    \/ /\ reputation[a].rating = reputation[b].rating
       /\ reputation[a].successful_tasks > reputation[b].successful_tasks

\* The sequences without repetition of all elements of S.
RECURSIVE Orderings(_)
Orderings(S) ==
    IF S = {} THEN {<<>>}
    ELSE UNION { { <<x>> \o rest : rest \in Orderings(S \ {x}) } : x \in S }

\* LIMIT ?
Take(seq, n) == SubSeq(seq, 1, Min(n, Len(seq)))

\* A query without the ORDER BY clause: the matching rows in any order.
DiscoverAgentsUnordered(query) ==
    LET matching == { a \in AgentIds : MatchesQuery(a, query) }
    IN  { Take(p, IF query.limit = 0 THEN 20 ELSE query.limit) :
            p \in Orderings(matching) }

\* discoverAgents: the lists the query can return. The order of rows that
\* tie on both ORDER BY terms is the store's to choose.
DiscoverAgents(query) ==
    LET matching == { a \in AgentIds : MatchesQuery(a, query) }
        ordered == { p \in Orderings(matching) :
                       \A i, j \in 1..Len(p) : i < j => ~RanksBefore(p[j], p[i]) }
    IN  { Take(p, IF query.limit = 0 THEN 20 ELSE query.limit) : p \in ordered }

(***************************************************************************)
(* orchestrator.ts                                                         *)
(***************************************************************************)
\* findBestAgent: agents[0] || null of discoverAgents; 0 is null.
FindBestAgent(capability, paymentToken) ==
    { IF list = <<>> THEN 0 ELSE list[1] :
        list \in DiscoverAgents([capability |-> capability,
                                 payment_token |-> paymentToken,
                                 has_min_rating |-> TRUE, min_rating |-> 0,
                                 limit |-> 1]) }

\* agent_id of a result no agent stands behind.
NoneAgent == 0
OrchestratorAgent == -1
OrchestrationCapability == <<"orchestration">>

\* An entry of the results array (agent_name is not modelled).
ResultEntry(capability, agent_id, result) ==
    [capability |-> capability, agent_id |-> agent_id,
     success |-> result.success, data |-> result.data, error |-> result.error]

NoAgentFound ==
    [success |-> FALSE, data |-> Undefined, error |-> "No agent found for capability"]

\* The entry task i of workflow w contributes once its body has finished.
EntryOf(w, thw, i) ==
    ResultEntry(request[w].tasks[i].capability, thw[i].agent, thw[i].result)

\* results.some(r => r.success)
Some(res) == \E k \in 1..Len(res) : res[k].success

\* results.every(r => r.success)
Every(res) == \A k \in 1..Len(res) : res[k].success

\* task.max_payment || 1000
PaymentAmount(task) == IF task.max_payment = 0 THEN DefaultPayment ELSE task.max_payment

\* The locals of orchestrate after a step of one of its bodies; when the
\* step is the last one of the call, orchestrate returns.
Continue(w, thw, res, prev, finished) ==
    /\ th' = [th EXCEPT ![w] = thw]
    /\ results' = [results EXCEPT ![w] = res]
    /\ previousOutput' = [previousOutput EXCEPT ![w] = prev]
    /\ IF finished /\ wpc[w] = "executing"
       THEN /\ wpc' = [wpc EXCEPT ![w] = "returned"]
            /\ ret' = [ret EXCEPT ![w] = [success |-> Every(res), results |-> res]]
       ELSE UNCHANGED <<wpc, ret>>

\* A best_agent branch that works on every task of the request.
LaunchedThreadsEveryTask(req) ==
    [i \in 1..Len(req.tasks) |->
        IF \/ req.strategy \in {"parallel", "best_agent"}
           \/ (req.strategy = "sequential" /\ i = 1)
        THEN [IdleThread EXCEPT !.pc = "find"]
        ELSE IdleThread]

\* The bodies running once the payment is admitted: sequential starts the
\* first task, parallel (tasks.map) all of them, best_agent tasks[0] alone.
LaunchedThreads(req) ==
    [i \in 1..Len(req.tasks) |->
        IF \/ req.strategy = "parallel"
           \/ (req.strategy \in {"sequential", "best_agent"} /\ i = 1)
        THEN [IdleThread EXCEPT !.pc = "find"]
        ELSE IdleThread]

\* orchestrate is called (by a caller of the module): verifyPayment's fetch
\* is under way.
Orchestrate(w, req, tx) ==
    /\ wpc[w] = "idle"
    /\ wpc' = [wpc EXCEPT ![w] = "verifying"]
    /\ request' = [request EXCEPT ![w] = req]
    /\ payment' = [payment EXCEPT ![w] = tx]
    /\ UNCHANGED <<registration, store, gate, th, previousOutput, results, ret, http>>

\* POST /orchestrate arrives: 402 without the X-Payment header, else the
\* route's verifyPayment fetches.
PostOrchestrate(w, hasHeader, req, tx) ==
    /\ wpc[w] = "idle"
    /\ request' = [request EXCEPT ![w] = req]
    /\ IF hasHeader
       THEN /\ wpc' = [wpc EXCEPT ![w] = "route_verifying"]
            /\ payment' = [payment EXCEPT ![w] = tx]
            /\ UNCHANGED http
       ELSE /\ wpc' = [wpc EXCEPT ![w] = "responded"]
            /\ http' = [http EXCEPT ![w] = 402]
            /\ UNCHANGED payment
    /\ UNCHANGED <<registration, store, gate, th, previousOutput, results, ret>>

\* A route that answers 403 and calls orchestrate all the same.
RouteVerifyResolvesFallsThrough(w, kind) ==
    /\ wpc[w] = "route_verifying"
    /\ fetched' = [fetched EXCEPT ![w] = kind]
    /\ verification' = [verification EXCEPT ![w] =
                            RouteVerifyPayment(Fetched(kind, payment[w]))]
    /\ wpc' = [wpc EXCEPT ![w] = "verifying"]
    /\ http' = [http EXCEPT ![w] =
                   IF RouteVerifyPayment(Fetched(kind, payment[w])).valid
                   THEN http[w] ELSE 403]
    /\ UNCHANGED <<registration, store, request, payment, paymentVerification,
                   th, previousOutput, results, ret>>

\* POST /orchestrate: the route's verification resolves: 403 when invalid,
\* 400 for a body without tasks, else orchestrate is called with the body
\* as it came (body.strategy || 'sequential' goes into the answer only).
RouteVerifyResolves(w, kind) ==
    /\ wpc[w] = "route_verifying"
    /\ fetched' = [fetched EXCEPT ![w] = kind]
    /\ verification' = [verification EXCEPT ![w] =
                            RouteVerifyPayment(Fetched(kind, payment[w]))]
    /\ LET verdict == RouteVerifyPayment(Fetched(kind, payment[w]))
       IN  IF ~verdict.valid
           THEN /\ wpc' = [wpc EXCEPT ![w] = "responded"]
                /\ http' = [http EXCEPT ![w] = 403]
           ELSE IF Len(request[w].tasks) = 0
           THEN /\ wpc' = [wpc EXCEPT ![w] = "responded"]
                /\ http' = [http EXCEPT ![w] = 400]
           ELSE /\ wpc' = [wpc EXCEPT ![w] = "verifying"]
                /\ UNCHANGED http
    /\ UNCHANGED <<registration, store, request, payment, paymentVerification, th,
                   previousOutput, results, ret>>

\* An orchestrate that reports the rejection and starts the strategy all
\* the same.
VerifyResolvesFallsThrough(w, kind) ==
    /\ wpc[w] = "verifying"
    /\ fetched' = [fetched EXCEPT ![w] = kind]
    /\ paymentVerification' = [paymentVerification EXCEPT ![w] =
                                   EngineVerifyPayment(Fetched(kind, payment[w]))]
    /\ wpc' = [wpc EXCEPT ![w] = "executing"]
    /\ th' = [th EXCEPT ![w] = LaunchedThreads(request[w])]
    /\ UNCHANGED <<registration, store, request, payment, verification, previousOutput,
                   results, ret, http>>

\* orchestrate: verifyPayment resolves. Invalid: the synthetic failed result
\* is returned. Valid: the branch of the strategy starts.
VerifyResolves(w, kind) ==
    /\ wpc[w] = "verifying"
    /\ fetched' = [fetched EXCEPT ![w] = kind]
    /\ paymentVerification' = [paymentVerification EXCEPT ![w] =
                                   EngineVerifyPayment(Fetched(kind, payment[w]))]
    /\ LET verdict == EngineVerifyPayment(Fetched(kind, payment[w]))
           launched == LaunchedThreads(request[w])
           starts == \E i \in 1..Len(launched) : launched[i].pc = "find"
       IN  IF ~verdict.valid
           THEN /\ wpc' = [wpc EXCEPT ![w] = "returned"]
                /\ ret' = [ret EXCEPT ![w] =
                     [success |-> FALSE,
                      results |-> << [capability |-> OrchestrationCapability,
                                      agent_id |-> OrchestratorAgent,
                                      success |-> FALSE, data |-> Undefined,
                                      error |-> verdict.error] >>]]
                /\ UNCHANGED th
           ELSE IF starts
           THEN /\ wpc' = [wpc EXCEPT ![w] = "executing"]
                /\ th' = [th EXCEPT ![w] = launched]
                /\ UNCHANGED ret
           ELSE /\ wpc' = [wpc EXCEPT ![w] = "returned"]
                /\ ret' = [ret EXCEPT ![w] = [success |-> Every(<<>>), results |-> <<>>]]
                /\ th' = [th EXCEPT ![w] = launched]
    /\ UNCHANGED <<registration, store, request, payment, verification, previousOutput,
                   results, http>>

\* A parallel branch that pushes each entry as its body finishes.
FinishedInCompletionOrder(w, i, thw) ==
    LET n == Len(thw)
        done == [thw EXCEPT ![i].pc = "done"]
        entry == EntryOf(w, thw, i)
    IN  CASE request[w].strategy = "sequential" ->
               LET prev == IF thw[i].agent # NoneAgent /\ thw[i].result.success
                           THEN thw[i].result.data ELSE previousOutput[w]
               IN  Continue(w, IF i < n THEN [done EXCEPT ![i + 1].pc = "find"]
                                        ELSE done,
                            Append(results[w], entry), prev, i = n)
          [] request[w].strategy = "parallel" ->
               Continue(w, done, Append(results[w], entry), previousOutput[w],
                        \A k \in 1..n : done[k].pc = "done")
          [] OTHER ->
               Continue(w, done,
                        IF thw[i].agent = NoneAgent THEN results[w]
                        ELSE Append(results[w], entry),
                        previousOutput[w], TRUE)

\* The body of task i has finished with its entry (thw[i] holds it): what
\* its strategy does next.
Finished(w, i, thw) ==
    LET n == Len(thw)
        done == [thw EXCEPT ![i].pc = "done"]
        entry == EntryOf(w, thw, i)
    IN  CASE request[w].strategy = "sequential" ->
               LET prev == IF thw[i].agent # NoneAgent /\ thw[i].result.success
                           THEN thw[i].result.data ELSE previousOutput[w]
               IN  IF i < n
                   THEN Continue(w, [done EXCEPT ![i + 1].pc = "find"],
                                 Append(results[w], entry), prev, FALSE)
                   ELSE Continue(w, done, Append(results[w], entry), prev, TRUE)
          [] request[w].strategy = "parallel" ->
               IF \A k \in 1..n : done[k].pc = "done"
               THEN Continue(w, done, [k \in 1..n |-> EntryOf(w, done, k)],
                             previousOutput[w], TRUE)
               ELSE Continue(w, done, results[w], previousOutput[w], FALSE)
          [] OTHER ->
               IF thw[i].agent = NoneAgent
               THEN Continue(w, done, results[w], previousOutput[w], TRUE)
               ELSE Continue(w, done, Append(results[w], entry),
                             previousOutput[w], TRUE)

\* updateReputation has returned for task i: sequential goes on to
\* recordTask, the other strategies have finished the task.
AfterUpdate(w, i, thw) ==
    IF request[w].strategy = "sequential"
    THEN Continue(w, [thw EXCEPT ![i].pc = "record"], results[w],
                  previousOutput[w], FALSE)
    ELSE Finished(w, i, thw)

\* An orchestrate that, finding no agent, waits and asks again.
FindPolling(w, i, agent) ==
    /\ IF agent = NoneAgent
       THEN UNCHANGED <<wpc, th, previousOutput, results, ret>>
       ELSE Continue(w,
                [th[w] EXCEPT ![i].pc = "call", ![i].agent = agent,
                    ![i].previous_result =
                        IF request[w].strategy = "sequential"
                           /\ Truthy(previousOutput[w])
                        THEN previousOutput[w] ELSE Undefined],
                results[w], previousOutput[w], FALSE)
    /\ UNCHANGED <<registration, store, request, payment, gate, http>>

\* findBestAgent resolves for task i. No agent: the task's failed result.
\* Else callAgent is called with the input (sequential: previous_result
\* merged in when previousOutput is truthy).
Find(w, i, agent) ==
    /\ IF agent = NoneAgent
       THEN Finished(w, i, [th[w] EXCEPT ![i].agent = NoneAgent,
                                         ![i].result = NoAgentFound])
       ELSE Continue(w,
                [th[w] EXCEPT ![i].pc = "call", ![i].agent = agent,
                    ![i].previous_result =
                        IF request[w].strategy = "sequential"
                           /\ Truthy(previousOutput[w])
                        THEN previousOutput[w] ELSE Undefined],
                results[w], previousOutput[w], FALSE)
    /\ UNCHANGED <<registration, store, request, payment, gate, http>>

\* An orchestrate that selects and calls again after a failed call.
CallResolvesRetrying(w, i, result, responseTimeMs) ==
    /\ i \in 1..Len(th[w])
    /\ th[w][i].pc = "call"
    /\ Continue(w, [th[w] EXCEPT ![i].pc = IF result.success THEN "read" ELSE "find",
                                 ![i].result = result,
                                 ![i].responseTimeMs = responseTimeMs],
                results[w], previousOutput[w], FALSE)
    /\ UNCHANGED <<registration, store, request, payment, gate, http>>

\* An orchestrate that updates the reputation after a successful call only.
CallResolvesNoPenalty(w, i, result, responseTimeMs) ==
    /\ i \in 1..Len(th[w])
    /\ th[w][i].pc = "call"
    /\ IF result.success
       THEN Continue(w, [th[w] EXCEPT ![i].pc = "read", ![i].result = result,
                                      ![i].responseTimeMs = responseTimeMs],
                     results[w], previousOutput[w], FALSE)
       ELSE AfterUpdate(w, i, [th[w] EXCEPT ![i].result = result,
                                            ![i].responseTimeMs = responseTimeMs])
    /\ UNCHANGED <<registration, store, request, payment, gate, http>>

\* A callAgent whose failure ends the bodies of the other tasks.
CallResolvesCancelling(w, i, result, responseTimeMs) ==
    /\ i \in 1..Len(th[w])
    /\ th[w][i].pc = "call"
    /\ Continue(w, [k \in 1..Len(th[w]) |->
                      IF k = i
                      THEN [th[w][k] EXCEPT !.pc = "read", !.result = result,
                                            !.responseTimeMs = responseTimeMs]
                      ELSE IF ~result.success /\ th[w][k].pc \in {"find", "call"}
                      THEN [th[w][k] EXCEPT !.pc = "done"]
                      ELSE th[w][k]],
                results[w], previousOutput[w], FALSE)
    /\ UNCHANGED <<registration, store, request, payment, gate, http>>

\* callAgent resolves for task i; updateReputation is called and its
\* getReputation is under way.
CallResolves(w, i, result, responseTimeMs) ==
    /\ i \in 1..Len(th[w])
    /\ th[w][i].pc = "call"
    /\ Continue(w, [th[w] EXCEPT ![i].pc = "read", ![i].result = result,
                                 ![i].responseTimeMs = responseTimeMs],
                results[w], previousOutput[w], FALSE)
    /\ UNCHANGED <<registration, store, request, payment, gate, http>>

\* updateReputation: getReputation resolves; without a row it returns, else
\* the new columns are computed from the row read and the UPDATE is sent.
ReadReputation(w, i) ==
    /\ i \in 1..Len(th[w])
    /\ th[w][i].pc = "read"
    /\ LET current == reputation[th[w][i].agent]
       IN  IF current.present
           THEN Continue(w, [th[w] EXCEPT ![i].pc = "write", ![i].current = current],
                         results[w], previousOutput[w], FALSE)
           ELSE AfterUpdate(w, i, th[w])
    /\ UNCHANGED <<registration, store, request, payment, gate, http>>

\* updateReputation: the UPDATE executes with the columns computed from the
\* row read earlier.
WriteReputation(w, i) ==
    /\ i \in 1..Len(th[w])
    /\ th[w][i].pc = "write"
    /\ LET t == th[w][i]
       IN  /\ reputation' = [reputation EXCEPT ![t.agent] =
                  UpdatedRow(t.current, t.result.success,
                             PaymentAmount(request[w].tasks[i]), STX,
                             t.responseTimeMs)]
           /\ updates' = [updates EXCEPT ![t.agent] = @ + 1]
    /\ AfterUpdate(w, i, th[w])
    /\ UNCHANGED <<registration, agents, tasks, nextId, pendingRep, request, payment, gate,
                   http>>

\* The TaskRecord of task i (ids, digests and timestamps are not modelled;
\* wf and task say which call and task wrote it).
TaskRecordOf(w, i) ==
    LET t == th[w][i]
    IN  [wf |-> w, task |-> i,
         provider_agent_id |-> t.agent,
         task_type |-> request[w].tasks[i].capability,
         payment_amount |-> PaymentAmount(request[w].tasks[i]),
         payment_token |-> STX,
         status |-> IF t.result.success THEN "completed" ELSE "failed",
         has_response_hash |-> Truthy(t.result.data),
         error |-> IF t.result.error \in {Undefined, ""} THEN "null"
                   ELSE t.result.error]

\* A recordTask that writes every record under one id, replacing the row.
RecordTaskReplacing(w, i) ==
    /\ i \in 1..Len(th[w])
    /\ th[w][i].pc = "record"
    /\ tasks' = <<TaskRecordOf(w, i)>>
    /\ Finished(w, i, th[w])
    /\ UNCHANGED <<registration, agents, reputation, nextId, pendingRep,
                   updates, request, payment, gate, http>>

\* sequential: recordTask's INSERT executes; the result is pushed and the
\* loop goes on.
RecordTask(w, i) ==
    /\ i \in 1..Len(th[w])
    /\ th[w][i].pc = "record"
    /\ tasks' = Append(tasks, TaskRecordOf(w, i))
    /\ Finished(w, i, th[w])
    /\ UNCHANGED <<registration, agents, reputation, nextId, pendingRep,
                   updates, request, payment, gate, http>>

\* A statement of the store throws in the body of task i (findBestAgent,
\* getReputation, the UPDATE or recordTask): the body rejects, and so does
\* orchestrate (Promise.all at the first rejection, the other bodies of a
\* parallel call running on).
StoreThrows(w, i) ==
    /\ i \in 1..Len(th[w])
    /\ th[w][i].pc \in {"find", "read", "write", "record"}
    /\ th' = [th EXCEPT ![w][i].pc = "threw"]
    /\ wpc' = [wpc EXCEPT ![w] = "threw"]
    /\ UNCHANGED <<registration, store, request, payment, gate, previousOutput,
                   results, ret, http>>

Requests == [strategy : Strategies, tasks : TaskLists]

\* The transactions drawn where the store and the agents take part: one
\* the engine's gate admits, one unsettled, one that is no contract call.
DrawnTxRecords ==
    { tx \in TxRecords :
        \/ tx.tx_type = "contract_call" /\ tx.contract_id = SbtcContract
              /\ tx.tx_status \in {"success", "pending"}
        \/ tx.tx_type = "token_transfer" /\ tx.tx_status = "success" }

Next ==
    \/ \E req \in RegisterRequests : RegisterAgent(req)
    \/ \E id \in AgentIds : InsertReputation(id)
    \/ \E w \in Workflows :
          /\ wpc[w] = "idle"
          /\ \E req \in Requests, tx \in DrawnTxRecords : Orchestrate(w, req, tx)
    \/ \E w \in Workflows, kind \in FetchKinds : VerifyResolves(w, kind)
    \/ \E w \in Workflows, i \in 1..MaxTasks :
          /\ i \in 1..Len(th[w])
          /\ th[w][i].pc = "find"
          /\ \E agent \in FindBestAgent(request[w].tasks[i].capability, STX) :
                Find(w, i, agent)
    \/ \E w \in Workflows, i \in 1..MaxTasks :
          /\ i \in 1..Len(th[w])
          /\ th[w][i].pc = "call"
          /\ \E result \in DrawnResults, responseTimeMs \in ResponseTimes :
                /\ (Truthy(result.data) \/ ~result.success
                       \/ request[w].strategy = "sequential")
                /\ CallResolves(w, i, result, responseTimeMs)
    \/ \E w \in Workflows, i \in 1..MaxTasks : ReadReputation(w, i)
    \/ \E w \in Workflows, i \in 1..MaxTasks : WriteReputation(w, i)
    \/ \E w \in Workflows, i \in 1..MaxTasks : RecordTask(w, i)

Spec == Init /\ [][Next]_vars

\* The same with a store whose statements may throw.
NextFaulty ==
    \/ Next
    \/ \E id \in AgentIds : InsertReputationFails(id)
    \/ \E w \in Workflows, i \in 1..MaxTasks : StoreThrows(w, i)

SpecFaulty == Init /\ [][NextFaulty]_vars

\* POST /orchestrate and orchestrate up to the start of the strategy: the
\* two payment gates on every transaction.
NextGate ==
    \/ \E w \in Workflows, req \in Requests, tx \in TxRecords : Orchestrate(w, req, tx)
    \/ \E w \in Workflows, hasHeader \in BOOLEAN, req \in Requests, tx \in TxRecords :
          PostOrchestrate(w, hasHeader, req, tx)
    \/ \E w \in Workflows, kind \in FetchKinds : RouteVerifyResolves(w, kind)
    \/ \E w \in Workflows, kind \in FetchKinds : VerifyResolves(w, kind)

SpecGate == Init /\ [][NextGate]_vars

(***************************************************************************)
(* Properties.                                                             *)
(***************************************************************************)
\* Task i of call w has been attempted: an agent was selected for it and the
\* body working on it has run to its end.
Attempted(w, i) == th[w][i].pc = "done" /\ th[w][i].agent # NoneAgent

\* The body of task i of call w has executed its UPDATE of the row of a.
HasUpdated(w, i, a) == th[w][i].agent = a /\ th[w][i].pc \in {"record", "done"}

\* An updateReputation of agent a stands between its read and its write.
UpdateInFlight(a) ==
    \E w \in Workflows : \E i \in 1..Len(th[w]) :
        th[w][i].agent = a /\ th[w][i].pc = "write"

RecordsOf(w, i) == { k \in 1..Len(tasks) : tasks[k].wf = w /\ tasks[k].task = i }

\* C1: no reputation update is lost: once the k updates of an agent's row
\* have all finished, total_tasks has grown by k, and so has
\* successful_tasks + failed_tasks. The code reads the row and writes it in
\* two statements, and two bodies of a parallel call interleave them.
C1_NoLostUpdate ==
    \A a \in AgentIds :
        (reputation[a].present /\ ~UpdateInFlight(a)) =>
            /\ reputation[a].total_tasks = updates[a]
            /\ reputation[a].successful_tasks + reputation[a].failed_tasks = updates[a]

\* C2: a returned call has written exactly one TaskRecord for every task it
\* attempted, completed when the agent's call succeeded and failed otherwise,
\* under each strategy. The code records tasks in the sequential branch only.
C2_OneTaskRecordPerAttemptedTask ==
    \A w \in Workflows :
        wpc[w] = "returned" =>
            \A i \in 1..Len(th[w]) :
                Attempted(w, i) =>
                    /\ Cardinality(RecordsOf(w, i)) = 1
                    /\ \A k \in RecordsOf(w, i) :
                          tasks[k].status = IF th[w][i].result.success
                                            THEN "completed" ELSE "failed"

\* C3: when the engine's gate rejects the payment, orchestrate has returned
\* success = false with the one failed result that carries the reason, and
\* it never executes: no body runs (no agent selected, no agent called), no
\* reputation row is updated and no TaskRecord is written.
C3_RejectedPaymentNeverExecutes ==
    \A w \in Workflows :
        (paymentVerification[w].decided /\ ~paymentVerification[w].valid) =>
            /\ wpc[w] = "returned"
            /\ ret[w].success = FALSE
            /\ Len(ret[w].results) = 1
            /\ ret[w].results[1].success = FALSE
            /\ ret[w].results[1].error = paymentVerification[w].error
            /\ th[w] = <<>>
            /\ results[w] = <<>>
            /\ RecordsOf(w, 1) = {} /\ tasks = <<>>
            /\ \A a \in AgentIds : updates[a] = 0

\* C3 witness: a rejected call whose first task an agent of the registry
\* could have served.
C3_Witness ==
    \E w \in Workflows :
        /\ wpc[w] = "returned"
        /\ paymentVerification[w].decided /\ ~paymentVerification[w].valid
        /\ Len(request[w].tasks) >= 1
        /\ request[w].strategy = "sequential"
        /\ \E a \in AgentIds :
              MatchesQuery(a, [capability |-> request[w].tasks[1].capability,
                               payment_token |-> STX, has_min_rating |-> TRUE,
                               min_rating |-> 0, limit |-> 1])

\* C4: neither gate admits a transaction of a contract other than the
\* configured one: CONTRACT of orchestrator.ts for the engine's gate,
\* SBTC_CONTRACT of index.ts for the routes'. The engine's gate never looks
\* at the contract, the routes' gate admits every transaction that is no
\* contract call.
C4_WrongContractRejected ==
    \A w \in Workflows :
        /\ paymentVerification[w].valid => payment[w].contract_id = OracleContract
        /\ verification[w].valid => payment[w].contract_id = SbtcContract

\* C5: a transaction whose tx_status is not success is admitted by neither
\* gate, whatever its type and contract: the call of such a payment is not
\* executing, has not returned success, and the route has answered 403 or
\* nothing yet.
C5_UnsettledNeverAdmitted ==
    \A w \in Workflows :
        (payment[w] \in TxRecords /\ payment[w].tx_status # "success") =>
            /\ ~verification[w].valid
            /\ ~paymentVerification[w].valid
            /\ wpc[w] \in {"route_verifying", "verifying", "responded", "returned"}
            /\ (wpc[w] = "responded" => http[w] = 403)
            /\ (wpc[w] = "returned" => ~ret[w].success /\ Len(ret[w].results) = 1)
            /\ (verification[w].decided /\ wpc[w] = "responded" =>
                    verification[w].error = StatusError(payment[w].tx_status)
                    \/ fetched[w] # "tx")
            /\ (paymentVerification[w].decided =>
                    paymentVerification[w].error = StatusError(payment[w].tx_status)
                    \/ fetched[w] # "tx")

\* C5 witness: the engine's gate has rejected a contract call that is still
\* pending, on its status.
C5_Witness ==
    \E w \in Workflows :
        /\ payment[w].tx_status = "pending"
        /\ payment[w].tx_type = "contract_call"
        /\ fetched[w] = "tx"
        /\ paymentVerification[w] = Rejected("Transaction status: pending")
        /\ wpc[w] = "returned"

\* C6 as claimed: a fetch that throws and a not-found answer are both
\* rejected with the not-found reason.
C6_SameNotFoundReason ==
    \A w \in Workflows :
        (paymentVerification[w].decided /\ fetched[w] \in {"throws", "not_ok"}) =>
            paymentVerification[w] = Rejected("Transaction not found")

\* C6 as amended: both are rejected; the reason is "Transaction not found"
\* for a not-found answer and "Verification failed: <error>" for a fetch
\* that throws. The same holds of the routes' gate.
C6_FetchFailureRejected ==
    \A w \in Workflows :
        /\ (paymentVerification[w].decided /\ fetched[w] = "not_ok") =>
              paymentVerification[w] = Rejected("Transaction not found")
        /\ (paymentVerification[w].decided /\ fetched[w] = "throws") =>
              paymentVerification[w] = Rejected("Verification failed")
        /\ (~paymentVerification[w].decided /\ verification[w].decided
              /\ fetched[w] = "not_ok") =>
              verification[w] = Rejected("Transaction not found")
        /\ (~paymentVerification[w].decided /\ verification[w].decided
              /\ fetched[w] = "throws") =>
              verification[w] = Rejected("Verification failed")

\* C6 witness: the engine's fetch of a settled contract call has thrown, and
\* the call has returned the rejection.
C6_Witness ==
    \E w \in Workflows :
        /\ fetched[w] = "throws"
        /\ payment[w].tx_status = "success"
        /\ payment[w].tx_type = "contract_call"
        /\ paymentVerification[w].decided
        /\ wpc[w] = "returned"
        /\ ret[w].results[1].error = "Verification failed"

\* C7: every reputation update increases the stored total_tasks by exactly
\* 1 and exactly one of successful_tasks and failed_tasks by 1, leaving
\* successful_tasks + failed_tasks = total_tasks. The UPDATE writes counters
\* computed from the row read earlier, so a write that follows another
\* body's write of the same row leaves total_tasks where it was.
C7_EveryUpdateCountsOnce ==
    [][\A a \in AgentIds :
          updates'[a] = updates[a] + 1 =>
              /\ reputation'[a].total_tasks = reputation[a].total_tasks + 1
              /\ \/ /\ reputation'[a].successful_tasks = reputation[a].successful_tasks + 1
                    /\ reputation'[a].failed_tasks = reputation[a].failed_tasks
                 \/ /\ reputation'[a].successful_tasks = reputation[a].successful_tasks
                    /\ reputation'[a].failed_tasks = reputation[a].failed_tasks + 1
              /\ reputation'[a].successful_tasks + reputation'[a].failed_tasks
                    = reputation'[a].total_tasks]_vars

\* C8 as claimed: the stored rating of every row is in [0,100] and is the
\* rating formula of the counters of the row, the row of an agent without a
\* task included.
C8_RatingIsFormulaOfEveryRow ==
    \A a \in AgentIds :
        reputation[a].present =>
            /\ reputation[a].rating \in 0..100
            /\ reputation[a].rating = RatingFormula(reputation[a].successful_tasks,
                                                    reputation[a].total_tasks)

\* C8 as amended: the stored rating of every row is in [0,100]; it is the
\* rating formula of the counters of the row once the row has been updated
\* (total_tasks >= 1), and the seeded 50 in a row no update has written,
\* where the formula has no value (0/0).
C8_RatingIsFormulaOfUpdatedRow ==
    \A a \in AgentIds :
        reputation[a].present =>
            /\ reputation[a].rating \in 0..100
            /\ reputation[a].total_tasks >= 1 =>
                  reputation[a].rating = RatingFormula(reputation[a].successful_tasks,
                                                       reputation[a].total_tasks)
            /\ reputation[a].total_tasks = 0 =>
                  /\ reputation[a].rating = 50
                  /\ RatingFormula(reputation[a].successful_tasks,
                                   reputation[a].total_tasks) = NaN

\* C8 witness: a row two updates have written, one success and one failure,
\* rated round(0.5 * 100 * 0.51) = 26.
C8_Witness ==
    \E a \in AgentIds :
        /\ reputation[a].present
        /\ reputation[a].total_tasks = 2
        /\ reputation[a].successful_tasks = 1
        /\ reputation[a].rating = 26

\* C9: from the return of registerAgent to the agent's first reputation
\* update its row has rating 50, the three task counters 0 and both
\* earnings totals 0.
C9_NewAgentRow ==
    \A a \in 1..nextId :
        (a \notin pendingRep /\ updates[a] = 0) =>
            /\ reputation[a].present
            /\ reputation[a].rating = 50
            /\ reputation[a].total_tasks = 0
            /\ reputation[a].successful_tasks = 0
            /\ reputation[a].failed_tasks = 0
            /\ reputation[a].total_earned_stx = 0
            /\ reputation[a].total_earned_sbtc = 0

\* C9 witness: a registered agent has been selected and called, its first
\* update has read the row and has not written it yet.
C9_Witness ==
    \E a \in 1..nextId :
        /\ a \notin pendingRep
        /\ updates[a] = 0
        /\ UpdateInFlight(a)
        /\ reputation[a].rating = 50

\* C10: the row of a new agent after one update, of a successful call, has
\* total_tasks 1, successful_tasks 1, failed_tasks 0 and rating 51.
C10_FirstSuccess ==
    \A a \in AgentIds :
        (/\ updates[a] = 1
         /\ \E w \in Workflows : \E i \in 1..Len(th[w]) :
               HasUpdated(w, i, a) /\ th[w][i].result.success) =>
            /\ reputation[a].total_tasks = 1
            /\ reputation[a].successful_tasks = 1
            /\ reputation[a].failed_tasks = 0
            /\ reputation[a].rating = 51

\* C10 witness: the one update of an agent's row was of a successful call.
C10_Witness ==
    \E a \in AgentIds :
        /\ updates[a] = 1
        /\ reputation[a].total_tasks = 1
        /\ \E w \in Workflows : \E i \in 1..Len(th[w]) :
              HasUpdated(w, i, a) /\ th[w][i].result.success

\* The body of task i of call w executes its UPDATE in this step.
Writes(w, i) ==
    /\ i \in 1..Len(th[w])
    /\ th[w][i].pc = "write"
    /\ th'[w][i].pc # "write"

\* C11: a reputation update with token T and amount p raises the stored
\* earnings total of T by exactly p and leaves the other total as it was;
\* orchestrate updates with token STX and p = max_payment, or 1000 without
\* one. The UPDATE writes the totals of the row read earlier plus p, so a
\* write that follows another body's write of the same row does not add p
\* to the stored total, and can lower it.
C11_EarningsGrowByPayment ==
    [][\A w \in Workflows : \A i \in 1..MaxTasks :
          Writes(w, i) =>
              LET a == th[w][i].agent
                  p == IF request[w].tasks[i].max_payment = 0 THEN 1000
                       ELSE request[w].tasks[i].max_payment
              IN  /\ reputation'[a].total_earned_stx = reputation[a].total_earned_stx + p
                  /\ reputation'[a].total_earned_sbtc = reputation[a].total_earned_sbtc]_vars

\* The body of task i of call w has sent its remote call.
Called(w, i) == th[w][i].pc \in {"call", "read", "write", "record", "done"}
                   /\ th[w][i].agent # NoneAgent

\* Sequential: a task is worked on only once every task before it is done.
SequentialInOrder(w) ==
    \A i \in 1..Len(th[w]) : \A j \in 1..Len(th[w]) :
        (j < i /\ th[w][i].pc # "waiting") => th[w][j].pc = "done"

\* C12: in the sequential strategy the tasks run strictly one at a time in
\* request order, and when task i succeeded the input sent to task i+1
\* holds the output of task i under previous_result, whatever that output
\* is. The code merges previousOutput only when it is truthy, so an output
\* of null, 0, false or "" is not passed on.
C12_SequentialPassesEveryOutput ==
    \A w \in Workflows :
        request[w].strategy = "sequential" =>
            /\ SequentialInOrder(w)
            /\ \A i \in 1..Len(th[w]) :
                  (/\ i > 1
                   /\ Called(w, i)
                   /\ Called(w, i - 1)
                   /\ th[w][i - 1].result.success) =>
                      th[w][i].previous_result = th[w][i - 1].result.data

\* The half of C12 the code keeps: request order, and every truthy output
\* passed on.
SequentialPassesTruthyOutput ==
    \A w \in Workflows :
        request[w].strategy = "sequential" =>
            /\ SequentialInOrder(w)
            /\ \A i \in 1..Len(th[w]) :
                  (/\ i > 1
                   /\ Called(w, i)
                   /\ Called(w, i - 1)
                   /\ th[w][i - 1].result.success
                   /\ Truthy(th[w][i - 1].result.data)) =>
                      th[w][i].previous_result = th[w][i - 1].result.data

\* Sequential calls of up to MaxTasks + 1 tasks: long enough for a task
\* before and a task after a task without agent.
SequentialRequests ==
    [strategy : {"sequential"},
     tasks : UNION { [1..n -> TaskSpecs] : n \in 0..(MaxTasks + 1) }]

NextSequential ==
    \/ \E req \in RegisterRequests : RegisterAgent(req)
    \/ \E id \in AgentIds : InsertReputation(id)
    \/ \E w \in Workflows :
          /\ wpc[w] = "idle"
          /\ \E req \in SequentialRequests, tx \in DrawnTxRecords :
                Orchestrate(w, req, tx)
    \/ \E w \in Workflows, kind \in FetchKinds : VerifyResolves(w, kind)
    \/ \E w \in Workflows, i \in 1..(MaxTasks + 1) :
          /\ i \in 1..Len(th[w])
          /\ th[w][i].pc = "find"
          /\ \E agent \in FindBestAgent(request[w].tasks[i].capability, STX) :
                Find(w, i, agent)
    \/ \E w \in Workflows, i \in 1..(MaxTasks + 1) :
          /\ i \in 1..Len(th[w])
          /\ th[w][i].pc = "call"
          /\ \E result \in DrawnResults, responseTimeMs \in ResponseTimes :
                CallResolves(w, i, result, responseTimeMs)
    \/ \E w \in Workflows, i \in 1..(MaxTasks + 1) : ReadReputation(w, i)
    \/ \E w \in Workflows, i \in 1..(MaxTasks + 1) : WriteReputation(w, i)
    \/ \E w \in Workflows, i \in 1..(MaxTasks + 1) : RecordTask(w, i)

SpecSequential == Init /\ [][NextSequential]_vars

\* Task i of call w found no agent.
NoAgentTask(w, i) == th[w][i].pc = "done" /\ th[w][i].agent = NoneAgent

\* C13: in the sequential strategy a task without a matching agent gets a
\* failed result with no remote call, no reputation update and no
\* TaskRecord, the tasks after it still run, and the task that follows it
\* is called without previous_result, whatever happened before. The code
\* leaves previousOutput as it was at a task without agent, so the output
\* of an earlier successful task is merged into the task after it.
C13_NoAgentCarriesNothingForward ==
    \A w \in Workflows :
        request[w].strategy = "sequential" =>
            /\ wpc[w] = "returned" /\ paymentVerification[w].valid =>
                  /\ \A i \in 1..Len(th[w]) : th[w][i].pc = "done"
                  /\ Len(ret[w].results) = Len(request[w].tasks)
            /\ \A i \in 1..Len(th[w]) :
                  NoAgentTask(w, i) =>
                      /\ th[w][i].result = NoAgentFound
                      /\ th[w][i].current = NoReputationRow
                      /\ RecordsOf(w, i) = {}
                      /\ results[w][i].success = FALSE
                      /\ results[w][i].agent_id = NoneAgent
                      /\ (i < Len(th[w]) /\ Called(w, i + 1)) =>
                            th[w][i + 1].previous_result = Undefined

\* The entry of ret[w].results at i is the one of request task i.
ReportsTask(w, i) ==
    LET entry == ret[w].results[i]
        t == th[w][i]
    IN  /\ entry.capability = request[w].tasks[i].capability
        /\ entry.agent_id = t.agent
        /\ entry.success = t.result.success
        /\ entry.data = t.result.data
        /\ entry.error = t.result.error

\* C14: after an admitted sequential or parallel call the results array has
\* as many entries as the request has tasks, and entry i reports the
\* capability and the outcome of request task i, in whatever order the
\* remote calls completed.
C14_ResultsInRequestOrder ==
    \A w \in Workflows :
        (/\ wpc[w] = "returned"
         /\ paymentVerification[w].valid
         /\ request[w].strategy \in {"sequential", "parallel"}) =>
            /\ Len(ret[w].results) = Len(request[w].tasks)
            /\ \A i \in 1..Len(request[w].tasks) : ReportsTask(w, i)

\* C14 witness: a parallel call of two tasks has returned; the body of task
\* 2 had written the agent's row before the body of task 1 read it, so
\* task 2 finished first, and the two outcomes differ.
C14_Witness ==
    \E w \in Workflows :
        /\ wpc[w] = "returned"
        /\ request[w].strategy = "parallel"
        /\ Len(request[w].tasks) = 2
        /\ Len(th[w]) = 2
        /\ th[w][1].agent = th[w][2].agent
        /\ th[w][1].agent # NoneAgent
        /\ th[w][2].current.total_tasks = 0
        /\ th[w][1].current.total_tasks = 1
        /\ th[w][1].result.success # th[w][2].result.success
        /\ Len(ret[w].results) = 2

\* What a parallel call holds in every state: no body has a previous_result
\* merged into its input, a body without agent holds the no-agent result
\* and one with an agent that got past its call holds a result of callAgent,
\* and a returned call has run every body to its end and reports each.
ParallelBodiesIndependent ==
    \A w \in Workflows :
        (request[w].strategy = "parallel" /\ paymentVerification[w].valid) =>
            /\ previousOutput[w] = Undefined
            /\ \A i \in 1..Len(th[w]) :
                  /\ th[w][i].previous_result = Undefined
                  /\ th[w][i].pc # "waiting"
                  /\ NoAgentTask(w, i) => th[w][i].result = NoAgentFound
                  /\ (th[w][i].pc \in {"read", "write", "done"}
                         /\ th[w][i].agent # NoneAgent) =>
                        th[w][i].result \in CallAgentResults
            /\ wpc[w] = "returned" =>
                  /\ Len(th[w]) = Len(request[w].tasks)
                  /\ \A i \in 1..Len(th[w]) :
                        th[w][i].pc = "done" /\ ReportsTask(w, i)

\* A step of a parallel call moves one body and leaves the others as they
\* were.
ParallelStepMovesOneBody ==
    \A w \in Workflows :
        (request[w].strategy = "parallel" /\ wpc[w] = "executing") =>
            \A i \in 1..Len(th[w]) : \A j \in 1..Len(th[w]) :
                (i # j /\ th'[w][i] # th[w][i]) => th'[w][j] = th[w][j]

\* C15: in the parallel strategy every task is dispatched with its own
\* input, no previous_result merged, and the failure of a task (no agent,
\* transport error, non-2xx, malformed body) neither cancels nor changes
\* any other task: every other body runs to its end and reports its own
\* result.
C15_ParallelTasksIndependent ==
    []ParallelBodiesIndependent /\ [][ParallelStepMovesOneBody]_vars

\* C15 witness: a parallel call has returned; task 1 was called and failed,
\* task 2 was called after that failure and succeeded.
C15_Witness ==
    \E w \in Workflows :
        /\ wpc[w] = "returned"
        /\ request[w].strategy = "parallel"
        /\ Len(th[w]) = 2
        /\ th[w][1].agent # NoneAgent /\ ~th[w][1].result.success
        /\ th[w][2].agent = th[w][1].agent /\ th[w][2].result.success
        /\ th[w][2].current.total_tasks = 1
        /\ ret[w].results[2].success

RECURSIVE SumUpdates(_)
\* The UPDATEs of updateReputation executed, over the agents of S.
SumUpdates(S) ==
    IF S = {} THEN 0
    ELSE LET a == CHOOSE x \in S : TRUE
         IN  updates[a] + SumUpdates(S \ {a})

\* C16: in the best_agent strategy only tasks[0] is worked on: no agent is
\* selected, called or penalized for a later task, at most one reputation
\* update is made, and the results array never has more than one entry,
\* which is the one of tasks[0].
C16_BestAgentFirstTaskOnly ==
    \A w \in Workflows :
        (request[w].strategy = "best_agent" /\ paymentVerification[w].valid) =>
            /\ \A i \in 1..Len(th[w]) : i > 1 => th[w][i] = IdleThread
            /\ Len(results[w]) <= 1
            /\ SumUpdates(AgentIds) <= 1
            /\ tasks = <<>>
            /\ wpc[w] = "returned" =>
                  /\ Len(ret[w].results) <= 1
                  /\ Len(ret[w].results) = 1 =>
                        /\ ReportsTask(w, 1)
                        /\ SumUpdates(AgentIds) = 1
                        /\ updates[th[w][1].agent] = 1

\* C16 witness: a best_agent call of two tasks an agent could serve has
\* returned with the result of tasks[0]; the body of tasks[1] never ran.
C16_Witness ==
    \E w \in Workflows :
        /\ wpc[w] = "returned"
        /\ request[w].strategy = "best_agent"
        /\ Len(th[w]) = 2
        /\ request[w].tasks[2].capability = CapP
        /\ th[w][1].agent # NoneAgent
        /\ Len(ret[w].results) = 1
        /\ th[w][2] = IdleThread

\* Call w was admitted and has returned.
ReturnedAdmitted(w) == wpc[w] = "returned" /\ paymentVerification[w].valid

\* Task i of call w has a failed entry in the results: its call failed, or
\* (sequential, parallel) no agent was found for it.
FailedEntry(w, i) ==
    /\ th[w][i].pc = "done"
    /\ \/ th[w][i].agent # NoneAgent /\ ~th[w][i].result.success
       \/ th[w][i].agent = NoneAgent
             /\ request[w].strategy \in {"sequential", "parallel"}

\* C17 as claimed: the success flag of an admitted call is false exactly
\* when an attempted task failed, and a call none of whose tasks was
\* carried out is not reported as a success.
C17_SuccessIffNoAttemptedTaskFailed ==
    \A w \in Workflows :
        ReturnedAdmitted(w) =>
            /\ ret[w].success = FALSE <=>
                  \E i \in 1..Len(th[w]) : Attempted(w, i) /\ ~th[w][i].result.success
            /\ (\A i \in 1..Len(th[w]) : ~Attempted(w, i)) => ret[w].success = FALSE

\* C17 as amended: the success flag of an admitted call is true exactly when
\* every entry of its results succeeded, which an empty results array does;
\* it is false exactly when a task has a failed entry, be it an attempted
\* task whose call failed or a sequential or parallel task without agent.
\* A call with no entry (best_agent without agent, no task, a strategy that
\* is none of the three) returns success.
C17_SuccessIffEveryEntrySucceeded ==
    \A w \in Workflows :
        ReturnedAdmitted(w) =>
            /\ ret[w].success = TRUE <=>
                  \A k \in 1..Len(ret[w].results) : ret[w].results[k].success
            /\ ret[w].success = FALSE <=>
                  \E i \in 1..Len(th[w]) : FailedEntry(w, i)
            /\ ret[w].results = <<>> => ret[w].success = TRUE

\* C17 witness: a sequential call has returned success = false although its
\* one attempted task succeeded: its other task found no agent.
C17_Witness ==
    \E w \in Workflows :
        /\ ReturnedAdmitted(w)
        /\ request[w].strategy = "sequential"
        /\ Len(th[w]) = 2
        /\ Attempted(w, 1) /\ th[w][1].result.success
        /\ NoAgentTask(w, 2)
        /\ ret[w].success = FALSE

\* Calls of one task under each strategy, the agent's answer drawn from
\* everything callAgent can return.
SingleTaskRequests ==
    [strategy : {"sequential", "parallel", "best_agent"},
     tasks : [1..1 -> TaskSpecs]]

NextSingleTask ==
    \/ \E req \in RegisterRequests : RegisterAgent(req)
    \/ \E id \in AgentIds : InsertReputation(id)
    \/ \E w \in Workflows :
          /\ wpc[w] = "idle"
          /\ \E req \in SingleTaskRequests, tx \in DrawnTxRecords :
                Orchestrate(w, req, tx)
    \/ \E w \in Workflows, kind \in FetchKinds : VerifyResolves(w, kind)
    \/ \E w \in Workflows :
          /\ 1 \in 1..Len(th[w])
          /\ th[w][1].pc = "find"
          /\ \E agent \in FindBestAgent(request[w].tasks[1].capability, STX) :
                Find(w, 1, agent)
    \/ \E w \in Workflows :
          /\ 1 \in 1..Len(th[w])
          /\ th[w][1].pc = "call"
          /\ \E result \in CallAgentResults, responseTimeMs \in ResponseTimes :
                CallResolves(w, 1, result, responseTimeMs)
    \/ \E w \in Workflows : ReadReputation(w, 1)
    \/ \E w \in Workflows : WriteReputation(w, 1)
    \/ \E w \in Workflows : RecordTask(w, 1)

SpecSingleTask == Init /\ [][NextSingleTask]_vars

\* Task i of call w failed: no agent was found for it, or its call failed.
TaskFailed(w, i) ==
    /\ th[w][i].pc = "done"
    /\ \/ th[w][i].agent = NoneAgent
       \/ ~th[w][i].result.success

\* C18: every per-task failure (no agent found, transport error, non-2xx
\* answer, malformed body) is reported as a result of its task with
\* success = false and a non-empty error string, under each strategy, a
\* task without agent with agent_id 'none'; and orchestrate returns. The
\* best_agent branch pushes nothing when no agent is found, and the error of
\* a non-2xx answer is the answer's body, which can be empty.
C18_EveryFailureReported ==
    \A w \in Workflows :
        ReturnedAdmitted(w) =>
            \A i \in 1..Len(th[w]) :
                TaskFailed(w, i) =>
                    /\ i <= Len(ret[w].results)
                    /\ ret[w].results[i].capability = request[w].tasks[i].capability
                    /\ ret[w].results[i].success = FALSE
                    /\ ret[w].results[i].error \notin {"", Undefined}
                    /\ th[w][i].agent = NoneAgent =>
                          ret[w].results[i].agent_id = NoneAgent

\* The failures the code does report as C18 says: every one of a sequential
\* or parallel call and every failed call of best_agent, but for the error
\* string of a non-2xx answer with an empty body.
ReportedFailures ==
    \A w \in Workflows :
        ReturnedAdmitted(w) =>
            \A i \in 1..Len(th[w]) :
                (/\ TaskFailed(w, i)
                 /\ ~(request[w].strategy = "best_agent" /\ th[w][i].agent = NoneAgent)) =>
                    /\ i <= Len(ret[w].results)
                    /\ ret[w].results[i].success = FALSE
                    /\ ret[w].results[i].error # Undefined
                    /\ (ret[w].results[i].error = "" => th[w][i].result.error = "")
                    /\ th[w][i].agent = NoneAgent =>
                          ret[w].results[i].agent_id = NoneAgent

\* The bodies that have executed their UPDATE of the row of agent a.
UpdatersOf(a) ==
    { <<w, i>> \in Workflows \X (1..(MaxTasks + 1)) :
        i <= Len(th[w]) /\ HasUpdated(w, i, a) }

\* Every body that got past its updateReputation executed one UPDATE.
OneUpdatePerAttemptedTask ==
    \A a \in AgentIds : updates[a] = Cardinality(UpdatersOf(a))

\* The UPDATE of a failed call, on a row no other update has written since
\* this one read it: failed_tasks and total_tasks grow by 1,
\* successful_tasks stays, the rating is the formula of the new counters.
FailedCallPenalized ==
    \A w \in Workflows : \A i \in 1..MaxTasks :
        (/\ Writes(w, i)
         /\ ~th[w][i].result.success
         /\ reputation[th[w][i].agent] = th[w][i].current) =>
            LET a == th[w][i].agent
            IN  /\ updates'[a] = updates[a] + 1
                /\ reputation'[a].total_tasks = reputation[a].total_tasks + 1
                /\ reputation'[a].failed_tasks = reputation[a].failed_tasks + 1
                /\ reputation'[a].successful_tasks = reputation[a].successful_tasks
                /\ reputation'[a].rating =
                      RatingFormula(reputation'[a].successful_tasks,
                                    reputation'[a].total_tasks)
                /\ reputation'[a].rating <= reputation[a].rating

\* C19: every attempted task whose remote call fails updates the selected
\* agent's reputation exactly once, with success = false, under each of the
\* three strategies: when no other update of the row came in between,
\* failed_tasks and total_tasks grow by 1, successful_tasks is unchanged
\* and the rating is recomputed.
C19_FailedCallPenalizedOnce ==
    []OneUpdatePerAttemptedTask /\ [][FailedCallPenalized]_vars

\* C19 witness: a best_agent call has returned after a failed remote call,
\* and the agent's row, new before, counts one failed task and is rated 0.
C19_Witness ==
    \E w \in Workflows :
        /\ ReturnedAdmitted(w)
        /\ request[w].strategy = "best_agent"
        /\ Len(th[w]) >= 1
        /\ Attempted(w, 1)
        /\ ~th[w][1].result.success
        /\ th[w][1].current.total_tasks = 0
        /\ reputation[th[w][1].agent].total_tasks = 1
        /\ reputation[th[w][1].agent].failed_tasks = 1
        /\ reputation[th[w][1].agent].successful_tasks = 0
        /\ reputation[th[w][1].agent].rating = 0

\* min_rating of the queries put to discoverAgents: the bound of
\* findBestAgent, ratings the rows take, and one above them all.
MinRatings == {0, 26, 50, 51, 70}

\* Queries with a min_rating (capability and payment_token: <<>> when the
\* query has none; limit 0 when it has none).
RatedQueries ==
    [capability : {<<>>, CapP}, payment_token : {<<>>, STX},
     has_min_rating : {TRUE}, min_rating : MinRatings, limit : {0, 1}]

\* C20: discoverAgents with min_rating = m returns no agent whose rating is
\* below m, and does not leave out an agent for a rating of m or more (the
\* bound is inclusive), for every m, 0 included; findBestAgent, which asks
\* with min_rating 0, returns agents rated 0 or more.
C20_MinRatingIsLowerBound ==
    /\ \A query \in RatedQueries : \A list \in DiscoverAgents(query) :
          /\ \A k \in 1..Len(list) : reputation[list[k]].rating >= query.min_rating
          /\ (query.limit = 0 /\ query.capability = <<>> /\ query.payment_token = <<>>) =>
                \A a \in AgentIds :
                    (agents[a].present /\ reputation[a].present
                        /\ reputation[a].rating >= query.min_rating) =>
                        \E k \in 1..Len(list) : list[k] = a
    /\ \A capability \in TaskCapabilities : \A a \in FindBestAgent(capability, STX) :
          a # NoneAgent => reputation[a].rating >= 0

\* C20 witness: of two agents with the same capability, rated 51 and 50,
\* the query with min_rating 51 returns the first alone, and the query with
\* min_rating 0 finds an agent rated 0.
C20_Witness ==
    /\ \E a, b \in AgentIds :
          /\ reputation[a].present /\ reputation[a].rating = 51
          /\ reputation[b].present /\ reputation[b].rating = 50
          /\ DiscoverAgents([capability |-> CapP, payment_token |-> <<>>,
                             has_min_rating |-> TRUE, min_rating |-> 51,
                             limit |-> 0]) = {<<a>>}
    /\ \E w \in Workflows : wpc[w] = "returned"

\* x is an element of the array arr.
Member(x, arr) == \E k \in 1..Len(arr) : arr[k] = x

\* Capabilities and tokens asked of discoverAgents: the registered ones, the
\* same in another letter case, and the pattern characters of LIKE.
QueryCapabilities == {CapP, CapS, <<"P">>, <<"_">>, <<"%">>}
QueryTokens == {STX, SBTC, <<"s", "t", "x">>, <<"S", "T", "_">>}

\* C21: discoverAgents returns an agent for capability c and token t only
\* if c is an element of its capabilities and t an element of its
\* payment_tokens. The code matches the JSON text of the array with LIKE
\* '%"c"%', which folds letter case and reads % and _ in c as patterns.
C21_ExactMembership ==
    \A c \in QueryCapabilities : \A t \in QueryTokens :
        /\ \A list \in DiscoverAgents([capability |-> c, payment_token |-> <<>>,
                                       has_min_rating |-> FALSE, min_rating |-> 0,
                                       limit |-> 0]) :
              \A k \in 1..Len(list) : Member(c, agents[list[k]].capabilities)
        /\ \A list \in DiscoverAgents([capability |-> <<>>, payment_token |-> t,
                                       has_min_rating |-> FALSE, min_rating |-> 0,
                                       limit |-> 0]) :
              \A k \in 1..Len(list) : Member(t, agents[list[k]].payment_tokens)

\* What the LIKE filter does guarantee: an agent that has the capability and
\* accepts the token is not filtered out, and an agent none of whose
\* capabilities matches the asked one as a LIKE pattern is.
LikeMembership ==
    \A c \in QueryCapabilities : \A a \in AgentIds :
        LET query == [capability |-> c, payment_token |-> <<>>,
                      has_min_rating |-> FALSE, min_rating |-> 0, limit |-> 0]
        IN  /\ (agents[a].present /\ reputation[a].present
                   /\ Member(c, agents[a].capabilities)) => MatchesQuery(a, query)
            /\ MatchesQuery(a, query) =>
                  \E k \in 1..Len(agents[a].capabilities) :
                      Like(<<"%">> \o c \o <<"%">>, agents[a].capabilities[k])

\* Limits asked of discoverAgents; 0 stands for a limit of 0 and for a missing
\* one, which query.limit || 20 does not tell apart.
Limits == {0, 1, 2}
OrderedQueries ==
    { [capability |-> c, payment_token |-> <<>>, has_min_rating |-> FALSE,
       min_rating |-> 0, limit |-> l] : c \in {<<>>, CapP}, l \in Limits }

\* The list is in ORDER BY order, holds matching agents once each, and an
\* agent is left out only when the list is full (n entries) and the agent
\* ranks before none of its entries.
OrderedPrefix(list, query, n) ==
    /\ \A i, j \in 1..Len(list) : i < j =>
          \/ reputation[list[i]].rating > reputation[list[j]].rating
          \/ /\ reputation[list[i]].rating = reputation[list[j]].rating
             /\ reputation[list[i]].successful_tasks
                   >= reputation[list[j]].successful_tasks
    /\ \A i, j \in 1..Len(list) : list[i] = list[j] => i = j
    /\ \A k \in 1..Len(list) : MatchesQuery(list[k], query)
    /\ Len(list) <= n
    /\ \A a \in AgentIds :
          (MatchesQuery(a, query) /\ ~Member(a, list)) =>
              /\ Len(list) = n
              /\ \A k \in 1..Len(list) :
                    \/ reputation[list[k]].rating > reputation[a].rating
                    \/ /\ reputation[list[k]].rating = reputation[a].rating
                       /\ reputation[list[k]].successful_tasks
                             >= reputation[a].successful_tasks

\* C22 as stated: the list returned by discoverAgents is ordered by
\* descending rating, then descending successful_tasks, has at most limit
\* entries, and these are the first limit agents of that order among the
\* matching ones.
C22_FirstLimitOfOrder ==
    \A query \in OrderedQueries : \A list \in DiscoverAgents(query) :
        OrderedPrefix(list, query, query.limit)

\* C22, amended: the same with a limit of 0 (or a missing one) read as 20.
C22_FirstLimitOrTwentyOfOrder ==
    \A query \in OrderedQueries : \A list \in DiscoverAgents(query) :
        OrderedPrefix(list, query, IF query.limit = 0 THEN 20 ELSE query.limit)

\* Two matching agents of different rating, and a limit of 1 that returns
\* the higher rated one alone.
C22_Witness ==
    \E a, b \in AgentIds :
        /\ agents[a].present /\ reputation[a].present
        /\ agents[b].present /\ reputation[b].present
        /\ reputation[a].rating > reputation[b].rating
        /\ \E w \in Workflows : \E i \in 1..Len(th[w]) : th[w][i].pc = "done"
        /\ DiscoverAgents([capability |-> CapP, payment_token |-> <<>>,
                           has_min_rating |-> FALSE, min_rating |-> 0,
                           limit |-> 1]) = {<<a>>}

\* C23: two calls of discoverAgents with the same filters and no write in
\* between return the same list in the same order, also when matching agents
\* tie on rating and successful_tasks: the store's rows determine the list.
C23_DiscoverRepeatable ==
    \A query \in OrderedQueries :
        \A first, second \in DiscoverAgents(query) : first = second

\* The read-only half of C23: the step in which findBestAgent's query
\* resolves changes no agent, reputation or task row.
DiscoverChangesNoRow ==
    [][(\E w \in Workflows : \E i \in 1..Len(th[w]) : \E agent \in 0..MaxAgents :
           th[w][i].pc = "find" /\ Find(w, i, agent))
        => UNCHANGED <<agents, reputation, tasks>>]_vars

\* The lists of C23 differ in nothing but the order of tied rows.
TiedRowsOnly ==
    \A query \in OrderedQueries :
        \A first, second \in DiscoverAgents(query) :
            /\ Len(first) = Len(second)
            /\ \A k \in 1..Len(first) :
                  /\ reputation[first[k]].rating = reputation[second[k]].rating
                  /\ reputation[first[k]].successful_tasks
                        = reputation[second[k]].successful_tasks

\* The registered agents with a reputation row that have capability c and
\* accept token t.
Capable(c, t) ==
    { a \in AgentIds : /\ agents[a].present /\ reputation[a].present
                       /\ Member(c, agents[a].capabilities)
                       /\ Member(t, agents[a].payment_tokens) }

\* findBestAgent(c, t) answers none exactly when no agent is capable, and
\* else a capable agent that no capable agent ranks before.
BestOfCapable(c, t) ==
    \A best \in FindBestAgent(c, t) :
        /\ best = 0 <=> Capable(c, t) = {}
        /\ best # 0 =>
              /\ best \in Capable(c, t)
              /\ \A b \in Capable(c, t) :
                    /\ reputation[b].rating <= reputation[best].rating
                    /\ reputation[b].rating = reputation[best].rating =>
                          reputation[b].successful_tasks
                             <= reputation[best].successful_tasks

\* C24: findBestAgent(capability, token) returns none if and only if no
\* registered agent with a reputation row has the capability and accepts the
\* token, and otherwise a matching agent of maximal rating (of maximal
\* successful_tasks among those).
C24_BestAgentOfMatching ==
    \A c \in QueryCapabilities : \A t \in QueryTokens : BestOfCapable(c, t)

\* C24 holds for the capabilities and tokens that LIKE reads as they are
\* stored (no pattern character, the stored letter case).
BestAgentOfPlainNames ==
    \A c \in TaskCapabilities : \A t \in {STX, SBTC} : BestOfCapable(c, t)

\* POST /register or POST /agents arrives (one handler): 402 without the
\* X-Payment header, else verifyPayment fetches.
PostRegister(hasHeader, tx, body) ==
    /\ registration.pc \in {"idle", "responded"}
    /\ nextId < MaxAgents
    /\ registration' =
          IF hasHeader
          THEN [NoRegistration EXCEPT !.pc = "verifying", !.tx = tx, !.body = body]
          ELSE [NoRegistration EXCEPT !.pc = "responded", !.http = 402]
    /\ UNCHANGED <<store, wpc, request, payment, gate, th, previousOutput,
                   results, ret, http>>

\* handleRegistration: the verification resolves: 403 when invalid, 400 for
\* a body that lacks a required field or the signature, else registerAgent
\* is called.
RegistrationVerifyResolves(kind) ==
    /\ registration.pc = "verifying"
    /\ LET verdict == RouteVerifyPayment(Fetched(kind, registration.tx))
           answer(status) == [registration EXCEPT !.pc = "responded",
                                                  !.tx = NoTx, !.body = NoBody,
                                                  !.fetched = kind,
                                                  !.valid = verdict.valid,
                                                  !.http = status]
       IN  registration' =
              IF ~verdict.valid THEN answer(403)
              ELSE IF ~registration.body.complete THEN answer(400)
              ELSE IF ~registration.body.signed THEN answer(400)
              ELSE [registration EXCEPT !.pc = "registering", !.fetched = kind,
                                        !.valid = TRUE]
    /\ UNCHANGED <<store, wpc, request, payment, gate, th, previousOutput,
                   results, ret, http>>

\* registerAgent, called by handleRegistration: a fresh id, INSERT INTO
\* agents.
RegistrationInsertsAgent ==
    /\ registration.pc = "registering"
    /\ nextId < MaxAgents
    /\ nextId' = nextId + 1
    /\ agents' = [agents EXCEPT ![nextId + 1] =
                     [present |-> TRUE,
                      capabilities |-> registration.body.req.capabilities,
                      payment_tokens |-> registration.body.req.payment_tokens]]
    /\ pendingRep' = pendingRep \cup {nextId + 1}
    /\ registration' = [registration EXCEPT !.pc = "inserted", !.id = nextId + 1]
    /\ UNCHANGED <<reputation, tasks, updates, wpc, request, payment, gate, th,
                   previousOutput, results, ret, http>>

\* registerAgent, called by handleRegistration: INSERT INTO reputation, and
\* the handler answers 201.
RegistrationInsertsReputation ==
    /\ registration.pc = "inserted"
    /\ reputation' = [reputation EXCEPT ![registration.id] = NewReputationRow]
    /\ pendingRep' = pendingRep \ {registration.id}
    /\ registration' = [registration EXCEPT !.pc = "responded", !.tx = NoTx,
                                             !.body = NoBody, !.http = 201]
    /\ UNCHANGED <<agents, tasks, nextId, updates, wpc, request, payment, gate,
                   th, previousOutput, results, ret, http>>

\* registerAgent throws on one of its INSERTs (a store error): the handler's
\* catch answers 500; a row already inserted stays.
RegistrationFails ==
    /\ registration.pc \in {"registering", "inserted"}
    /\ pendingRep' = pendingRep \ {registration.id}
    /\ registration' = [registration EXCEPT !.pc = "responded", !.tx = NoTx,
                                             !.body = NoBody, !.http = 500]
    /\ UNCHANGED <<agents, reputation, tasks, nextId, updates, wpc, request,
                   payment, gate, th, previousOutput, results, ret, http>>

\* The bodies POST /orchestrate receives here: one task under each strategy,
\* or no task.
PaidRequests == SingleTaskRequests \cup {NoRequest}

\* The three paid endpoints with a store and agents behind them.
NextPaid ==
    \/ /\ registration.pc \in {"idle", "responded"}
       /\ \E hasHeader \in BOOLEAN, tx \in DrawnTxRecords, body \in RegisterBodies :
             PostRegister(hasHeader, tx, body)
    \/ \E kind \in FetchKinds : RegistrationVerifyResolves(kind)
    \/ RegistrationInsertsAgent
    \/ RegistrationInsertsReputation
    \/ RegistrationFails
    \/ \E w \in Workflows :
          /\ wpc[w] = "idle"
          /\ \E hasHeader \in BOOLEAN, req \in PaidRequests, tx \in DrawnTxRecords :
                PostOrchestrate(w, hasHeader, req, tx)
    \/ \E w \in Workflows, kind \in FetchKinds : RouteVerifyResolves(w, kind)
    \/ \E w \in Workflows, kind \in FetchKinds : VerifyResolves(w, kind)
    \/ \E w \in Workflows :
          /\ 1 \in 1..Len(th[w])
          /\ th[w][1].pc = "find"
          /\ \E agent \in FindBestAgent(request[w].tasks[1].capability, STX) :
                Find(w, 1, agent)
    \/ \E w \in Workflows :
          /\ 1 \in 1..Len(th[w])
          /\ th[w][1].pc = "call"
          /\ \E result \in DrawnResults, responseTimeMs \in ResponseTimes :
                CallResolves(w, 1, result, responseTimeMs)
    \/ \E w \in Workflows : ReadReputation(w, 1)
    \/ \E w \in Workflows : WriteReputation(w, 1)
    \/ \E w \in Workflows : RecordTask(w, 1)

SpecPaid == Init /\ [][NextPaid]_vars

\* No reputation row was updated and no task record written.
NoOrchestrationWrite ==
    /\ tasks = <<>>
    /\ \A a \in AgentIds : updates[a] = 0

\* What the answers of the paid endpoints say about the request answered.
PaidAnswers ==
    /\ registration.http = 402 =>
          registration.fetched = "none" /\ registration.id = 0
    /\ registration.http = 403 =>
          /\ registration.fetched # "none"
          /\ ~registration.valid /\ registration.id = 0
    /\ registration.id # 0 => registration.valid
    /\ \A w \in Workflows :
          /\ http[w] = 402 =>
                /\ fetched[w] = "none" /\ th[w] = <<>> /\ ret[w] = NoRet
                /\ NoOrchestrationWrite
          /\ http[w] = 403 =>
                /\ fetched[w] # "none" /\ ~verification[w].valid
                /\ th[w] = <<>> /\ ret[w] = NoRet
                /\ NoOrchestrationWrite
          /\ wpc[w] \notin {"idle", "route_verifying", "responded"} =>
                verification[w].valid

\* A step that inserts an agent row belongs to a registration whose
\* verification returned valid; a step that writes a reputation update or a
\* task record belongs to a workflow whose verification returned valid; a
\* step that answers 402 or 403 writes nothing.
PaidWrites ==
    /\ agents' # agents =>
          registration.pc = "registering" /\ registration.valid
    /\ (tasks' # tasks \/ updates' # updates) =>
          \E w \in Workflows : verification[w].valid /\ http[w] = 0
    /\ (registration' # registration /\ registration'.http \in {402, 403}) =>
          UNCHANGED store
    /\ \A w \in Workflows :
          (http'[w] # http[w] /\ http'[w] \in {402, 403}) => UNCHANGED store

\* C25: POST /register, POST /agents and POST /orchestrate answer 402 without
\* a verification fetch or a store write when X-Payment is missing, answer
\* 403 without a store write or an agent call when the verification is
\* invalid, and insert an agent row or start a workflow only when the
\* verification returned valid.
C25_PaidEndpointsGated == []PaidAnswers /\ [][PaidWrites]_vars

\* A registration was admitted and inserted its agent, a later one was
\* answered 403, and a POST /orchestrate without the header was answered 402.
C25_Witness ==
    /\ agents[1].present /\ reputation[1].present
    /\ registration.http = 403
    /\ \E w \in Workflows : http[w] = 402

\* An admitted POST /orchestrate has its workflow run to a task record.
PaidWorkflowRuns ==
    \E w \in Workflows :
        /\ verification[w].valid /\ wpc[w] = "returned"
        /\ Len(tasks) = 1 /\ registration.http = 402

\* C26: over any interleaving of registrations and workflows, each agent's
\* total_earned_stx, total_earned_sbtc and total_tasks never decrease from
\* one state to the next.
C26_EarningsAndTasksNeverDecrease ==
    [][\A a \in AgentIds :
          /\ reputation'[a].total_earned_stx >= reputation[a].total_earned_stx
          /\ reputation'[a].total_earned_sbtc >= reputation[a].total_earned_sbtc
          /\ reputation'[a].total_tasks >= reputation[a].total_tasks]_vars

\* Without an update of the same agent in flight at the write, the three
\* counters do not decrease.
NeverDecreaseWhenAlone ==
    [][\A a \in AgentIds :
          (\A w \in Workflows : \A i \in 1..Len(th[w]) :
              (th[w][i].agent = a /\ th[w][i].pc = "write") =>
                  th[w][i].current = reputation[a])
          => /\ reputation'[a].total_earned_stx >= reputation[a].total_earned_stx
             /\ reputation'[a].total_earned_sbtc >= reputation[a].total_earned_sbtc
             /\ reputation'[a].total_tasks >= reputation[a].total_tasks]_vars

\* The task records that name agent a as provider.
RecordsFor(a) == { k \in 1..Len(tasks) : tasks[k].provider_agent_id = a }

\* C27: the reputation update and the audit write of one task are an atomic
\* pair: once a sequential call has ended, by returning or by a store error
\* thrown out of orchestrate, every reputation update applied has its
\* TaskRecord and every TaskRecord its update.
C27_UpdateAndRecordPaired ==
    \A w \in Workflows :
        (request[w].strategy = "sequential" /\ wpc[w] \in {"returned", "threw"})
        => \A a \in AgentIds : updates[a] = Cardinality(RecordsFor(a))

\* A store error is fatal to orchestrate: nothing is returned.
StoreErrorIsFatal ==
    \A w \in Workflows : wpc[w] = "threw" => ret[w] = NoRet

\* A sequential call that returned has one record per update.
PairedWhenReturned ==
    \A w \in Workflows :
        (request[w].strategy = "sequential" /\ wpc[w] = "returned")
        => \A a \in AgentIds : updates[a] = Cardinality(RecordsFor(a))

\* Every stored record is settled.
RecordsSettled ==
    \A k \in 1..Len(tasks) : tasks[k].status \in {"completed", "failed"}

\* A step keeps every stored record as it is.
RecordsKept ==
    /\ Len(tasks') >= Len(tasks)
    /\ \A k \in 1..Len(tasks) : tasks'[k] = tasks[k]

\* C28: every TaskRecord stored has status 'completed' or 'failed', never
\* 'pending', and no later step changes a field of a stored record or
\* deletes it.
C28_TaskRecordsImmutable == []RecordsSettled /\ [][RecordsKept]_vars

\* A failed and a completed record are stored, and the workflow has gone on
\* after the first was written.
C28_Witness ==
    /\ Len(tasks) = 2
    /\ tasks[1].status = "failed"
    /\ tasks[2].status = "completed"
    /\ \E w \in Workflows : wpc[w] = "returned"

\* How far the body of a task has come.
Rank(pc) ==
    CASE pc = "waiting" -> 0
      [] pc = "find" -> 1
      [] pc = "call" -> 2
      [] pc = "read" -> 3
      [] pc = "write" -> 4
      [] pc = "record" -> 5
      [] pc = "done" -> 6
      [] pc = "threw" -> 7

\* The bodies of call w that have executed their UPDATE.
Updated(w) ==
    { i \in 1..Len(th[w]) :
        th[w][i].pc \in {"record", "done"} /\ th[w][i].agent # NoneAgent }

\* As many UPDATEs were executed as bodies got past theirs, and no more
\* results are reported than bodies have ended (a rejected payment is
\* reported with one result of its own).
OnceEach ==
    \A w \in Workflows :
        /\ SumUpdates(AgentIds) = Cardinality(Updated(w))
        /\ Len(results[w])
              <= Cardinality({ i \in 1..Len(th[w]) : th[w][i].pc = "done" })
        /\ ReturnedAdmitted(w) => Len(ret[w].results) <= Len(request[w].tasks)

\* A body only moves forward: it sends its call from findBestAgent's answer
\* and from nowhere else, and comes to its UPDATE from its call's answer.
NeverBack ==
    \A w \in Workflows :
        th[w] # <<>> =>
            /\ Len(th'[w]) = Len(th[w])
            /\ \A i \in 1..Len(th[w]) :
                  /\ Rank(th'[w][i].pc) >= Rank(th[w][i].pc)
                  /\ (th'[w][i].pc = "call" /\ th[w][i].pc # "call") =>
                        th[w][i].pc = "find"
                  /\ th[w][i].pc \in {"read", "write", "record", "done"} =>
                        /\ th'[w][i].result = th[w][i].result
                        /\ th'[w][i].agent = th[w][i].agent

\* C29: the engine never retries: each task of a request leads to at most
\* one remote call and at most one reputation update, also when the call
\* fails, and its result is reported once.
C29_NoRetry == []OnceEach /\ [][NeverBack]_vars

\* A parallel call of two tasks has returned, the first call failed and the
\* second succeeded: two updates, two results.
C29_Witness ==
    \E w \in Workflows :
        /\ wpc[w] = "returned"
        /\ request[w].strategy = "parallel"
        /\ Len(th[w]) = 2
        /\ Attempted(w, 1) /\ ~th[w][1].result.success
        /\ Attempted(w, 2) /\ th[w][2].result.success
        /\ SumUpdates(AgentIds) = 2
        /\ Len(ret[w].results) = 2

\* Outside a registerAgent that stands between its two INSERTs, agent a has
\* a row in both tables or in none.
OneToOne(a) ==
    /\ (agents[a].present /\ a \notin pendingRep) => reputation[a].present
    /\ reputation[a].present => agents[a].present

\* C30: after any sequence of registrations, one with a failing store write
\* included, and workflows, every agent row has its reputation row and every
\* reputation row belongs to an agent row.
C30_ReputationOneToOne == \A a \in AgentIds : OneToOne(a)

\* A reputation row never exists without its agent row, and an agent row,
\* once inserted, keeps its id and its fields and is never deleted.
ReputationHasAgent ==
    /\ [](\A a \in AgentIds : reputation[a].present => agents[a].present)
    /\ [][\A a \in AgentIds : agents[a].present => agents'[a] = agents[a]]_vars

\* C31: the gate of the route and the gate of orchestrate agree: a payment
\* the route admitted, whose transaction the engine's fetch returns as well,
\* is admitted by orchestrate, so the request does not end in the failed
\* result of capability 'orchestration'.
C31_RouteAdmittedIsEngineAdmitted ==
    \A w \in Workflows :
        (/\ verification[w].valid
         /\ paymentVerification[w].decided
         /\ fetched[w] = "tx")
        => /\ paymentVerification[w].valid
           /\ wpc[w] # "returned" \/ ret[w].results = <<>>
                 \/ ret[w].results[1].agent_id # OrchestratorAgent

\* The two gates agree on the contract calls the route admits.
GatesAgreeOnContractCalls ==
    \A w \in Workflows :
        (/\ verification[w].valid
         /\ paymentVerification[w].decided
         /\ fetched[w] = "tx"
         /\ payment[w].tx_type = "contract_call")
        => paymentVerification[w].valid

\* POST /orchestrate: the strategy its answer reports, body.strategy ||
\* 'sequential'.
ReportedStrategy(req) ==
    IF req.strategy = "omitted" THEN "sequential" ELSE req.strategy

\* C32: an admitted request with tasks and no strategy is executed with the
\* sequential strategy its answer reports: every task is worked on and the
\* results have one entry per task.
C32_OmittedStrategyRunsSequential ==
    \A w \in Workflows :
        (/\ ReturnedAdmitted(w)
         /\ request[w].strategy = "omitted"
         /\ Len(request[w].tasks) >= 1)
        => /\ ReportedStrategy(request[w]) = "sequential"
           /\ Len(ret[w].results) = Len(request[w].tasks)
           /\ \A i \in 1..Len(th[w]) : th[w][i].pc = "done"

\* What an admitted request without strategy does: no task is worked on, no
\* row written, and it returns success with no results.
OmittedStrategyRunsNothing ==
    \A w \in Workflows :
        (ReturnedAdmitted(w) /\ request[w].strategy = "omitted")
        => /\ ret[w] = [success |-> TRUE, results |-> <<>>]
           /\ \A i \in 1..Len(th[w]) : th[w][i].pc = "waiting"
           /\ tasks = <<>>
           /\ \A a \in AgentIds : updates[a] = 0

\* A request that names the sequential strategy has one result per task.
NamedSequentialReportsEveryTask ==
    \A w \in Workflows :
        (ReturnedAdmitted(w) /\ request[w].strategy = "sequential")
        => Len(ret[w].results) = Len(request[w].tasks)

\* C33: in the sequential strategy the previous_result in the input of task
\* j is the output of task j - 1: when task j - 1 was attempted and failed,
\* task j is not given the output of an earlier task.
C33_PreviousResultIsOfPrecedingTask ==
    \A w \in Workflows :
        request[w].strategy = "sequential" =>
            \A j \in 2..Len(th[w]) :
                (/\ Called(w, j)
                 /\ Attempted(w, j - 1)
                 /\ ~th[w][j - 1].result.success)
                => th[w][j].previous_result = Undefined

\* After a preceding task that succeeded with a truthy output, the
\* previous_result of task j is that output.
PrecedingOutputPassed ==
    \A w \in Workflows :
        request[w].strategy = "sequential" =>
            \A j \in 2..Len(th[w]) :
                (/\ Called(w, j)
                 /\ Attempted(w, j - 1)
                 /\ th[w][j - 1].result.success
                 /\ Truthy(th[w][j - 1].result.data))
                => th[w][j].previous_result = th[w][j - 1].result.data

\* The calls of orchestrate whose termination is followed: every strategy,
\* tasks an agent may serve (p) or none serves (s), a payment the gate
\* admits or rejects, an agent that answers or fails, and a store of one
\* agent, which every task of capability p is then given.
LiveTaskSpecs == { t \in TaskSpecs : t.max_payment = 0 }
LiveRequests ==
    [strategy : Strategies,
     tasks : UNION { [1..n -> LiveTaskSpecs] : n \in 0..MaxTasks }]
LiveTxRecords ==
    { tx \in DrawnTxRecords : tx.tx_type = "contract_call" }
LiveResults == { r \in DrawnResults : Truthy(r.data) \/ ~r.success }

\* A pending await of orchestrate resolves with its value: the verification
\* fetch, a findBestAgent, a remote call, or a statement of the store.
AwaitResolves ==
    \/ \E w \in Workflows, kind \in FetchKinds : VerifyResolves(w, kind)
    \/ \E w \in Workflows, i \in 1..MaxTasks :
          /\ i \in 1..Len(th[w])
          /\ th[w][i].pc = "find"
          /\ \E agent \in FindBestAgent(request[w].tasks[i].capability, STX) :
                Find(w, i, agent)
    \/ \E w \in Workflows, i \in 1..MaxTasks :
          /\ i \in 1..Len(th[w])
          /\ th[w][i].pc = "call"
          /\ \E result \in LiveResults, responseTimeMs \in ResponseTimes :
                CallResolves(w, i, result, responseTimeMs)
    \/ \E w \in Workflows, i \in 1..MaxTasks : ReadReputation(w, i)
    \/ \E w \in Workflows, i \in 1..MaxTasks : WriteReputation(w, i)
    \/ \E w \in Workflows, i \in 1..MaxTasks : RecordTask(w, i)

NextLive ==
    \/ \E req \in RegisterRequests : nextId = 0 /\ RegisterAgent(req)
    \/ \E id \in AgentIds : InsertReputation(id)
    \/ \E w \in Workflows :
          /\ wpc[w] = "idle"
          /\ \E req \in LiveRequests, tx \in LiveTxRecords : Orchestrate(w, req, tx)
    \/ AwaitResolves
    \/ \E w \in Workflows, i \in 1..MaxTasks : StoreThrows(w, i)

\* The store with failing statements, every pending await resolving in the
\* end: with its value, unless a statement of the store throws first.
SpecLive == Init /\ [][NextLive]_vars /\ WF_vars(AwaitResolves)

\* C34: every workflow terminates: when every verification fetch, remote
\* call and store operation resolves, a call of orchestrate returns its
\* result or throws a store error.
C34_WorkflowTerminates ==
    \A w \in Workflows :
        (wpc[w] = "verifying") ~> (wpc[w] \in {"returned", "threw"})

\* A parallel call has thrown a store error out of the body of its first
\* task, and the body of the second has run to its end.
C34_Witness ==
    \E w \in Workflows :
        /\ wpc[w] = "threw"
        /\ request[w].strategy = "parallel"
        /\ Len(th[w]) = 2
        /\ th[w][1].pc = "threw"
        /\ th[w][2].pc = "done" /\ th[w][2].agent # NoneAgent

================================================================================
